---- MODULE Spec2Model ----
(***************************************************************************)
(* A model of the Cloud Datastore adapter for js-data: the query compiler  *)
(* (filterQuery, getOperator) as pure operators, and the CRUD operations   *)
(* (create, createMany, find, findAll, update, updateAll, updateMany,      *)
(* destroy, destroyAll) as a state machine over a store of entities, one   *)
(* step per call to the storage collaborator.                              *)
(***************************************************************************)
EXTENDS Integers, Sequences, FiniteSets, TLC

\* ------------------------------------------------------------------------
\* Bounds of the model
\* ------------------------------------------------------------------------
\* Longest where clause (fields) and longest criteria (operators per field)
\* of the queries given to the compiler.
MaxWhere == 2
MaxOps == 2
\* Largest id the backend allocates.
MaxId == 2
\* Longest batch given to createMany and updateMany.
MaxBatch == 2
\* Most calls other callers make on the same kind while the adapter runs.
MaxOtherCalls == 1

\* The four implementations of the adapter the repository holds:
\* "legacy" is src/unnamed/part_000, the adapter with its own lifecycle (the
\* second module of src/dist/js-data-cloud-datastore.js, lines 948-2200, is
\* its build); "hybrid" is the first module of that file (lines 1-947), which
\* extends the Adapter class of js-data-adapter and still implements the
\* public operations itself; "adapter" is src/src/index.js and "bundle" the
\* last module of the dist file (lines 2201-2945), which leave the public
\* operations to the Adapter class.
Impls == {"legacy", "hybrid", "adapter", "bundle"}
\* The implementations whose public operations, hooks included, are their own.
OwnLifecycle == {"legacy", "hybrid"}
\* The implementation that runs.
VARIABLE impl

\* ------------------------------------------------------------------------
\* JavaScript values: undefined, numbers and strings
\* ------------------------------------------------------------------------
Undefined == [t |-> "undefined", n |-> 0, s |-> ""]
Num(n) == [t |-> "number", n |-> n, s |-> ""]

\* A string is the sequence c of its characters (UTF-16 code units).  An
\* ASCII character is written as itself, any other by the name of its code
\* unit, "U+" and four hexadecimal digits in upper case: the string of a
\* no-break space, 4 and a long s is Text(<<"U+00A0", "4", "U+017F">>).
Text(c) == [t |-> "string", n |-> 0, s |-> "", c |-> c]
\* The string of ASCII characters s.
Str(s) == Text([i \in 1..Len(s) |-> SubSeq(s, i, i)])

\* if (v) ...: undefined, 0, NaN and '' are falsy.
Truthy(v) ==
  CASE v.t = "undefined" -> FALSE
    [] v.t = "number" -> v.n # 0 \/ v.s \notin {"", "NaN"}
    [] v.t = "string" -> v.c # <<>>
    [] v.t = "boolean" -> v.s = "true"
    [] OTHER -> TRUE

\* What +v gives for a value that is not a number in any reading.
NaN == [t |-> "number", n |-> 0, s |-> "NaN"]

\* +v: a number is itself, true is 1 and false 0, undefined and an object
\* are NaN, and a string is read as a numeric literal.  The blanks around
\* it are dropped (the white space and the line terminators of JavaScript:
\* tab, line feed, vertical tab, form feed, carriage return, space,
\* no-break space, U+FEFF and the space separators of Unicode, U+1680,
\* U+2000 to U+200A, U+2028, U+2029, U+202F, U+205F and U+3000); the empty
\* string is 0; digits after
\* 0x, 0o or 0b are an integer in that base; otherwise an optional sign,
\* then Infinity or decimal digits with an optional point and an optional
\* exponent; any other string is NaN.  The value of the literal is rounded
\* to the nearest double, a tie to the one with the even mantissa.  The
\* numbers of the model are the integers below Limit = 2^28, so the result
\* is told by the double the value rounds to: an integer n below Limit is
\* n (1e3, 1.0, 150e-1, and 0.99999999999999999999, which rounds to 1),
\* a double of Limit or more (Infinity too) is "large" and a double with a
\* fractional part is "fraction", each with a "-" in front when negative.
\* An integer n of the binade 2^k is the nearest double of the values from
\* n - 2^(k-53) (n - 2^(k-54) when n = 2^k) to n + 2^(k-53), and 0 of the
\* values up to 2^-1075, half the smallest double.
ToNumber(v) ==
  LET Limit == 268435456
      Fraction == [t |-> "number", n |-> 0, s |-> "fraction"]
      Large == [t |-> "number", n |-> 0, s |-> "large"]
      \* The digits of 2^-j after the point, for j = 26 .. 54.
      Halves ==
        <<"00000001490116119384765625",
          "000000007450580596923828125",
          "0000000037252902984619140625",
          "00000000186264514923095703125",
          "000000000931322574615478515625",
          "0000000004656612873077392578125",
          "00000000023283064365386962890625",
          "000000000116415321826934814453125",
          "0000000000582076609134674072265625",
          "00000000002910383045673370361328125",
          "000000000014551915228366851806640625",
          "0000000000072759576141834259033203125",
          "00000000000363797880709171295166015625",
          "000000000001818989403545856475830078125",
          "0000000000009094947017729282379150390625",
          "00000000000045474735088646411895751953125",
          "000000000000227373675443232059478759765625",
          "0000000000001136868377216160297393798828125",
          "00000000000005684341886080801486968994140625",
          "000000000000028421709430404007434844970703125",
          "0000000000000142108547152020037174224853515625",
          "00000000000000710542735760100185871124267578125",
          "000000000000003552713678800500929355621337890625",
          "0000000000000017763568394002504646778106689453125",
          "00000000000000088817841970012523233890533447265625",
          "000000000000000444089209850062616169452667236328125",
          "0000000000000002220446049250313080847263336181640625",
          "00000000000000011102230246251565404236316680908203125",
          "000000000000000055511151231257827021181583404541015625">>
      \* The digits of 2^-1075 from its first significant one, the 324th
      \* after the point.
      Tiny ==
        "2470328229206232720882843964341106861825299013071623822127928412"
        \o "5033775363510437593264991818081799618989828234772285886546332835"
        \o "5177969898199387398005390939063150356595155702263922908583924491"
        \o "0518443593180284993653615250031937045767824921936562366986365848"
        \o "0757001585769269903706311928279558551332927834338409351978015531"
        \o "2465972635795746227664652728272200563740064854999770965994704540"
        \o "2082816622623785739345073633900796776193057750674017632467360096"
        \o "8951340535537458516661134223766678604162159680461914467291840300"
        \o "5300575308490487653917113865916462395249126236538818796362393732"
        \o "8042389101867234849766823508986338858792562830275599565752445550"
        \o "7255189313690836254779186948667994968324049705821028513185451396"
        \o "213837722826145437693412532098591327667236328125"
      Chars(s) == [i \in 1..Len(s) |-> SubSeq(s, i, i)]
      Char(s, i) == s[i]
      Blank(c) ==
        c \in {"\t", "\n", "", "\f", "\r", " ", "U+00A0", "U+1680", "U+2000", "U+2001",
               "U+2002", "U+2003", "U+2004", "U+2005", "U+2006", "U+2007", "U+2008",
               "U+2009", "U+200A", "U+2028", "U+2029", "U+202F", "U+205F", "U+3000",
               "U+FEFF"}
      DigitOf(c) ==
        CASE c = "0" -> 0 [] c = "1" -> 1 [] c = "2" -> 2 [] c = "3" -> 3
          [] c = "4" -> 4 [] c = "5" -> 5 [] c = "6" -> 6 [] c = "7" -> 7
          [] c = "8" -> 8 [] c = "9" -> 9
          [] c \in {"a", "A"} -> 10 [] c \in {"b", "B"} -> 11
          [] c \in {"c", "C"} -> 12 [] c \in {"d", "D"} -> 13
          [] c \in {"e", "E"} -> 14 [] c \in {"f", "F"} -> 15
          [] OTHER -> 16
      Digits(s, base) == \A i \in 1..Len(s) : DigitOf(Char(s, i)) < base
      Least(S) == CHOOSE i \in S : \A j \in S : i <= j
      Most(S) == CHOOSE i \in S : \A j \in S : i >= j
      Part(s, from, to) == IF from > to THEN <<>> ELSE SubSeq(s, from, to)
      Between(s, solid) == IF solid = {} THEN <<>> ELSE SubSeq(s, Least(solid), Most(solid))
      Trimmed(s) == Between(s, {i \in 1..Len(s) : ~Blank(Char(s, i))})
      From(s, kept) == IF kept = {} THEN <<>> ELSE SubSeq(s, Least(kept), Len(s))
      Upto(s, kept) == IF kept = {} THEN <<>> ELSE SubSeq(s, 1, Most(kept))
      \* s without its leading zeros; s without its trailing zeros.
      Significant(s) == From(s, {i \in 1..Len(s) : Char(s, i) # "0"})
      Ending(s) == Upto(s, {i \in 1..Len(s) : Char(s, i) # "0"})
      RECURSIVE Value(_, _, _, _)
      Value(s, i, base, acc) ==
        IF i > Len(s) THEN acc
        ELSE Value(s, i + 1, base, acc * base + DigitOf(Char(s, i)))
      RECURSIVE Power(_, _)
      Power(b, k) == IF k = 0 THEN 1 ELSE b * Power(b, k - 1)
      RECURSIVE Log2(_)
      Log2(n) == IF n < 2 THEN 0 ELSE 1 + Log2(n \div 2)
      \* 0.a <= 0.b, for two sequences of decimal digits.
      RECURSIVE AtMost(_, _, _)
      AtMost(a, b, i) ==
        IF i > Len(a) /\ i > Len(b) THEN TRUE
        ELSE LET x == IF i > Len(a) THEN 0 ELSE DigitOf(Char(a, i))
                 y == IF i > Len(b) THEN 0 ELSE DigitOf(Char(b, i))
             IN IF x # y THEN x < y ELSE AtMost(a, b, i + 1)
      \* The digits of 1 - 0.f, for digits f that end in a digit other than 0.
      RECURSIVE Complement(_, _)
      Complement(f, i) ==
        IF i > Len(f) THEN <<>>
        ELSE LET d == (IF i = Len(f) THEN 10 ELSE 9) - DigitOf(Char(f, i))
             IN <<SubSeq("0123456789", d + 1, d + 1)>> \o Complement(f, i + 1)
      Within(n) == IF n < Limit THEN Num(n) ELSE Large
      Based(sig, base, most) ==
        IF Len(sig) > most THEN Large ELSE Within(Value(sig, 1, base, 0))
      \* Half the distance from the integer n to the double below it, as
      \* the index of its digits in Halves.
      Below(n, k) == (IF n = Power(2, k) THEN 54 ELSE 53) - k - 25
      \* The double nearest to whole + 0.f, for f as in Complement.
      Nearest(whole, f) ==
        IF whole >= Limit THEN Large
        ELSE IF whole >= 1 /\ AtMost(f, Chars(Halves[53 - Log2(whole) - 25]), 1) THEN Num(whole)
        ELSE IF AtMost(Complement(f, 1), Chars(Halves[Below(whole + 1, Log2(whole + 1))]), 1)
          THEN Within(whole + 1)
        ELSE Fraction
      \* The double nearest to sig * 10^shift, for digits sig that neither
      \* begin nor end with 0; order is the number of digits before the point.
      Placed(sig, shift, order) ==
        IF order > 9 THEN Large
        ELSE IF order < 0 - 323 THEN Num(0)
        ELSE IF order = 0 - 323 THEN (IF AtMost(sig, Chars(Tiny), 1) THEN Num(0) ELSE Fraction)
        ELSE IF order < 0 THEN Fraction
        ELSE IF shift >= 0 THEN Within(Value(sig, 1, 10, 0) * Power(10, shift))
        ELSE Nearest(Value(Part(sig, 1, order), 1, 10, 0), Part(sig, order + 1, Len(sig)))
      Scaled(sig, ended, shift) ==
        Placed(ended, shift + Len(sig) - Len(ended), Len(sig) + shift)
      Raised(sig, fraction, negative, exponent) ==
        IF sig = <<>> THEN Num(0)
        ELSE IF Len(exponent) > 9 THEN (IF negative THEN Num(0) ELSE Large)
        ELSE Scaled(sig, Ending(sig),
                    (IF negative THEN 0 - Value(exponent, 1, 10, 0)
                     ELSE Value(exponent, 1, 10, 0)) - Len(fraction))
      Pointed(whole, fraction, signed, exponent) ==
        IF Digits(whole, 10) /\ Digits(fraction, 10) /\ Len(whole) + Len(fraction) > 0
             /\ Digits(exponent, 10)
          THEN Raised(Significant(whole \o fraction), fraction, signed = "-",
                      Significant(exponent))
          ELSE NaN
      Mantissa(m, dots, signed, exponent) ==
        Pointed(IF dots = {} THEN m ELSE Part(m, 1, Least(dots) - 1),
                IF dots = {} THEN <<>> ELSE Part(m, Least(dots) + 1, Len(m)),
                signed, exponent)
      \* has: the literal has an exponent part, which needs a digit.
      Exponent(m, signed, exponent, has) ==
        IF has /\ exponent = <<>> THEN NaN
        ELSE Mantissa(m, {i \in 1..Len(m) : Char(m, i) = "."}, signed, exponent)
      Parts(m, x, has) ==
        Exponent(m,
                 IF x # <<>> /\ Char(x, 1) = "-" THEN "-" ELSE "+",
                 IF x # <<>> /\ Char(x, 1) \in {"+", "-"} THEN Part(x, 2, Len(x)) ELSE x,
                 has)
      Split(u, marks) ==
        Parts(IF marks = {} THEN u ELSE Part(u, 1, Least(marks) - 1),
              IF marks = {} THEN <<>> ELSE Part(u, Least(marks) + 1, Len(u)),
              marks # {})
      Decimal(u) ==
        IF u = Chars("Infinity") THEN Large
        ELSE Split(u, {i \in 1..Len(u) : Char(u, i) \in {"e", "E"}})
      Signed(sign, x) ==
        IF sign = "+" \/ x.s = "NaN" THEN x
        ELSE IF x.s = "" THEN Num(0 - x.n)
        ELSE [x EXCEPT !.s = "-" \o @]
      Prefix(t, marks, base) ==
        Len(t) > 2 /\ Char(t, 1) = "0" /\ Char(t, 2) \in marks
          /\ Digits(Part(t, 3, Len(t)), base)
      Read(t) ==
        IF t = <<>> THEN Num(0)
        ELSE IF Prefix(t, {"x", "X"}, 16) THEN Based(Significant(Part(t, 3, Len(t))), 16, 7)
        ELSE IF Prefix(t, {"o", "O"}, 8) THEN Based(Significant(Part(t, 3, Len(t))), 8, 10)
        ELSE IF Prefix(t, {"b", "B"}, 2) THEN Based(Significant(Part(t, 3, Len(t))), 2, 28)
        ELSE Signed(IF Char(t, 1) = "-" THEN "-" ELSE "+",
                    Decimal(IF Char(t, 1) \in {"+", "-"} THEN Part(t, 2, Len(t)) ELSE t))
      StringToNumber(s) == Read(Trimmed(s))
  IN CASE v.t = "number" -> v
       [] v.t = "boolean" -> Num(IF v.s = "true" THEN 1 ELSE 0)
       [] v.t = "string" -> StringToNumber(v.c)
       [] OTHER -> NaN

\* ------------------------------------------------------------------------
\* Operator symbols are strings of characters: '|==' is <<"|", "=", "=">>
\* ------------------------------------------------------------------------
OpEq == <<"=", "=">>
OpEqq == <<"=", "=", "=">>
OpNe == <<"!", "=">>
OpNee == <<"!", "=", "=">>
OpGt == <<">">>
OpGe == <<">", "=">>
OpLt == <<"<">>
OpLe == <<"<", "=">>
OrOp(op) == <<"|">> \o op

\* A predicate function is named by the comparison it hands to query.filter;
\* NoFn is the undefined an operator table gives for a symbol it lacks.
NoFn == "undefined"

\* The tables are plain objects, and table[operator] is a property read: for
\* a symbol that is not a key of the table it gives what the table inherits
\* from Object.prototype, a function for each name but __proto__, which
\* gives Object.prototype itself.
OpConstructor == <<"c", "o", "n", "s", "t", "r", "u", "c", "t", "o", "r">>
OpToString == <<"t", "o", "S", "t", "r", "i", "n", "g">>
OpHasOwnProperty == <<"h", "a", "s", "O", "w", "n", "P", "r", "o", "p", "e", "r", "t", "y">>
ObjectPrototype(op) ==
  CASE op = OpConstructor -> "Object"
    [] op = OpToString -> "toString"
    [] op = OpHasOwnProperty -> "hasOwnProperty"
    [] op = <<"t", "o", "L", "o", "c", "a", "l", "e", "S", "t", "r", "i", "n", "g">> ->
         "toLocaleString"
    [] op = <<"v", "a", "l", "u", "e", "O", "f">> -> "valueOf"
    [] op = <<"i", "s", "P", "r", "o", "t", "o", "t", "y", "p", "e", "O", "f">> ->
         "isPrototypeOf"
    [] op = <<"p", "r", "o", "p", "e", "r", "t", "y", "I", "s", "E", "n", "u", "m", "e",
              "r", "a", "b", "l", "e">> -> "propertyIsEnumerable"
    [] op = <<"_", "_", "d", "e", "f", "i", "n", "e", "G", "e", "t", "t", "e", "r", "_", "_">> ->
         "__defineGetter__"
    [] op = <<"_", "_", "d", "e", "f", "i", "n", "e", "S", "e", "t", "t", "e", "r", "_", "_">> ->
         "__defineSetter__"
    [] op = <<"_", "_", "l", "o", "o", "k", "u", "p", "G", "e", "t", "t", "e", "r", "_", "_">> ->
         "__lookupGetter__"
    [] op = <<"_", "_", "l", "o", "o", "k", "u", "p", "S", "e", "t", "t", "e", "r", "_", "_">> ->
         "__lookupSetter__"
    [] op = <<"_", "_", "p", "r", "o", "t", "o", "_", "_">> -> "Object.prototype"
    [] OTHER -> NoFn

\* const OPERATORS = { '==': equal, '===': equal, '>': ..., '>=': ..., '<': ..., '<=': ... }
\* as OPERATORS[op] reads it.
OPERATORS(op) ==
  CASE op = OpEq -> "="
    [] op = OpEqq -> "="
    [] op = OpGt -> ">"
    [] op = OpGe -> ">="
    [] op = OpLt -> "<"
    [] op = OpLe -> "<="
    [] OTHER -> ObjectPrototype(op)

\* An override table is a function from some symbols to predicate functions.
\* Two predicates a caller supplies in an operator table: the one given per
\* call filters with '>=', the one given to the constructor with '<='.
CallPredicate == "callPredicate"
OwnPredicate == "ownPredicate"
\* The comparator of the query.filter call a predicate makes.
Comparator(fn) ==
  CASE fn = CallPredicate -> ">="
    [] fn = OwnPredicate -> "<="
    [] OTHER -> fn

\* table[op]: the entry of the key op, else what the table inherits.
Lookup(table, op) == IF op \in DOMAIN table THEN table[op] ELSE ObjectPrototype(op)
NoOverrides == [op \in {} |-> NoFn]

\* getOperator (operator, opts): the call-level entry if it is defined, else
\* ownOps[operator] || OPERATORS[operator].
getOperator(ownOps, operator, callOps) ==
  LET Or(own, builtIn) == IF own # NoFn THEN own ELSE builtIn
      Defined(entry, otherwise) == IF entry # NoFn THEN entry ELSE otherwise
  IN Defined(Lookup(callOps, operator),
             Or(Lookup(ownOps, operator), OPERATORS(operator)))

\* ------------------------------------------------------------------------
\* Queries
\* ------------------------------------------------------------------------
\* A criteria is a mapping (obj, its entries in declaration order in ops) or
\* a bare value (val).
Criteria(ops) == [obj |-> TRUE, val |-> Undefined, ops |-> ops]
Bare(v) == [obj |-> FALSE, val |-> v, ops |-> <<>>]
Entry(op, v) == [op |-> op, val |-> v]
Clause(field, crit) == [field |-> field, crit |-> crit]

\* orderBy / sort: undefined, a field name, or an array of clauses; a clause
\* is a field name or an array [field] or [field, direction].
NoOrder == [t |-> "undefined", s |-> "", a |-> <<>>]
OrderStr(f) == [t |-> "string", s |-> f, a |-> <<>>]
OrderArr(a) == [t |-> "array", s |-> "", a |-> a]
SortStr(f) == [t |-> "string", f |-> f, hasDir |-> FALSE, d |-> <<>>]
SortDir(f, d) == [t |-> "array", f |-> f, hasDir |-> TRUE, d |-> d]
TruthyOrder(o) == o.t = "array" \/ (o.t = "string" /\ o.s # "")

\* String.prototype.toUpperCase of a direction, a sequence of characters
\* written as those of Text: a letter a to z becomes A to Z; the long s
\* (U+017F) becomes S, the dotless i (U+0131) I, the sharp s (U+00DF) the
\* two characters SS, the ligatures U+FB00 to U+FB06 the ASCII letters they
\* stand for, and U+0149, U+01F0 and U+1E96 to U+1E9A a capital letter with
\* a mark before or after it; the other ASCII characters stay.  These
\* are all the characters whose upper case has an ASCII character; of any
\* other character the model keeps the character itself, which is no ASCII
\* character either.
toUpperCase(d) ==
  LET Lower == "abcdefghijklmnopqrstuvwxyz"
      Upper == "ABCDEFGHIJKLMNOPQRSTUVWXYZ"
      Letter(c) == CHOOSE i \in 1..26 : SubSeq(Lower, i, i) = c
      UpperChar(c) ==
        CASE \E i \in 1..26 : SubSeq(Lower, i, i) = c ->
               <<SubSeq(Upper, Letter(c), Letter(c))>>
          [] c = "U+017F" -> <<"S">>
          [] c = "U+0131" -> <<"I">>
          [] c = "U+00DF" -> <<"S", "S">>
          [] c = "U+FB00" -> <<"F", "F">>
          [] c = "U+FB01" -> <<"F", "I">>
          [] c = "U+FB02" -> <<"F", "L">>
          [] c = "U+FB03" -> <<"F", "F", "I">>
          [] c = "U+FB04" -> <<"F", "F", "L">>
          [] c \in {"U+FB05", "U+FB06"} -> <<"S", "T">>
          [] c = "U+0149" -> <<"U+02BC", "N">>
          [] c = "U+01F0" -> <<"J", "U+030C">>
          [] c = "U+1E96" -> <<"H", "U+0331">>
          [] c = "U+1E97" -> <<"T", "U+0308">>
          [] c = "U+1E98" -> <<"W", "U+030A">>
          [] c = "U+1E99" -> <<"Y", "U+030A">>
          [] c = "U+1E9A" -> <<"A", "U+02BE">>
          [] OTHER -> <<c>>
      RECURSIVE Upped(_)
      Upped(i) == IF i > Len(d) THEN <<>> ELSE UpperChar(d[i]) \o Upped(i + 1)
  IN Upped(1)

\* The calls made on the backend query, in the order they are chained.
FilterCall(field, cmp, v) == [call |-> "filter", field |-> field, arg |-> cmp, val |-> v]
OrderCall(field, desc) ==
  [call |-> "order", field |-> field, arg |-> IF desc THEN "descending" ELSE "", val |-> Undefined]
OffsetCall(n) == [call |-> "offset", field |-> "", arg |-> "", val |-> n]
LimitCall(n) == [call |-> "limit", field |-> "", arg |-> "", val |-> n]

\* A compilation either returns the backend query (err = "") or throws.
Compiled(q) == [err |-> "", operator |-> <<>>, q |-> q]
Thrown(err, operator) == [err |-> err, operator |-> operator, q |-> <<>>]
Unsupported == "Operator not supported!"
TypeError == "TypeError"

\* obj[key] = value on an object given as the sequence of its own keys:
\* an existing key keeps its place, a new key goes last.
RECURSIVE IndexOf(_, _, _)
IndexOf(where, field, i) ==
  IF i > Len(where) THEN 0
  ELSE IF where[i].field = field THEN i ELSE IndexOf(where, field, i + 1)

Assign(where, field, crit) ==
  LET i == IndexOf(where, field, 1) IN
  IF i = 0 THEN Append(where, Clause(field, crit))
  ELSE [where EXCEPT ![i] = Clause(field, crit)]

\* forOwn(query, ...) over the non-reserved keys: each moves into where,
\* a non-mapping value wrapped as {'==': config}.
\* Mutant of Shorthand: the bare value goes into where unwrapped.
ShorthandUnwrapped(config) == config

Shorthand(config) ==
  IF config.obj THEN config ELSE Criteria(<<Entry(OpEq, config.val)>>)

RECURSIVE MoveShorthand(_, _, _)
MoveShorthand(where, top, i) ==
  IF i > Len(top) THEN where
  ELSE MoveShorthand(Assign(where, top[i].field, Shorthand(top[i].crit)), top, i + 1)

\* forOwn of a criteria: the entries of a mapping; for a string, each index
\* in decimal ("0", "1", ..., "10", "11", ...) with the character at it;
\* nothing for a number. (Object.keys(undefined) throws.)
OwnEntries(crit) ==
  LET Digit(d) ==
        CASE d = 0 -> "0" [] d = 1 -> "1" [] d = 2 -> "2" [] d = 3 -> "3"
          [] d = 4 -> "4" [] d = 5 -> "5" [] d = 6 -> "6" [] d = 7 -> "7"
          [] d = 8 -> "8" [] OTHER -> "9"
      RECURSIVE IndexKey(_)
      IndexKey(i) ==
        IF i < 10 THEN <<Digit(i)>> ELSE Append(IndexKey(i \div 10), Digit(i % 10))
  IN
  IF crit.obj THEN crit.ops
  ELSE IF crit.val.t = "string"
         THEN [i \in 1..Len(crit.val.c) |->
                 Entry(IndexKey(i - 1), Text(<<crit.val.c[i]>>))]
         ELSE <<>>

\* The running dsQuery once a predicate has returned a value v that is not
\* a backend query: no call can be chained onto it.
NotQuery(v) == <<[call |-> "value", field |-> "", arg |-> "", val |-> v]>>
IsQuery(dsQuery) == \A k \in 1..Len(dsQuery) : dsQuery[k].call # "value"

\* predicateFn(dsQuery, field, value), called without a receiver.  Object
\* returns its argument, a primitive as its wrapper object;
\* Object.prototype.toString returns '[object Undefined]'; isPrototypeOf
\* returns false for a primitive; the other inherited functions throw for
\* the receiver they lack, and Object.prototype is not a function.  A
\* predicate of the tables calls query.filter, which only a backend query has.
Called(fn, dsQuery, field, value) ==
  LET primitive == ~IsQuery(dsQuery) /\ dsQuery[1].val.t # "object"
  IN CASE fn = "Object" ->
            Compiled(IF primitive
                       THEN NotQuery([dsQuery[1].val EXCEPT !.t = "object"])
                       ELSE dsQuery)
       [] fn = "toString" -> Compiled(NotQuery(Str("[object Undefined]")))
       [] fn = "isPrototypeOf" /\ primitive ->
            Compiled(NotQuery([t |-> "boolean", n |-> 0, s |-> "false"]))
       [] fn \in {"hasOwnProperty", "toLocaleString", "valueOf", "isPrototypeOf",
                  "propertyIsEnumerable", "__defineGetter__", "__defineSetter__",
                  "__lookupGetter__", "__lookupSetter__", "Object.prototype"} ->
            Thrown(TypeError, <<>>)
       [] ~IsQuery(dsQuery) -> Thrown(TypeError, <<>>)
       [] OTHER -> Compiled(Append(dsQuery, FilterCall(field, fn, value)))

\* The body of forOwn(criteria, function (value, operator) {...}) for one
\* entry: strip a leading '|', resolve the predicate, apply it to the
\* running query; an OR operator or an unresolved one throws.  With a
\* predicate resolved, the bundle tests isOr and throws without calling it;
\* the others call it first and test isOr on its return.
\* Mutant of ApplyEntry: the predicate is applied to the query the compiler
\* was given, not to the one the previous predicate returned.
ApplyEntryUnchained(ownOps, callOps, dsQuery, field, e) ==
  LET isOr == Len(e.op) > 0 /\ e.op[1] = "|"
      _operator == IF isOr THEN Tail(e.op) ELSE e.op
      Assigned(predicateResult) ==
        IF predicateResult.err # "" THEN predicateResult
        ELSE IF isOr THEN Thrown(Unsupported, e.op)
        ELSE predicateResult
      Applied(predicateFn) ==
        IF predicateFn = NoFn THEN Thrown(Unsupported, e.op)
        ELSE IF impl # "bundle" THEN Assigned(Called(predicateFn, <<>>, field, e.val))
        ELSE IF isOr THEN Thrown(Unsupported, e.op)
        ELSE Called(predicateFn, <<>>, field, e.val)
  IN Applied(getOperator(ownOps, _operator, callOps))

ApplyEntry(ownOps, callOps, dsQuery, field, e) ==
  LET isOr == Len(e.op) > 0 /\ e.op[1] = "|"
      _operator == IF isOr THEN Tail(e.op) ELSE e.op
      Assigned(predicateResult) ==
        IF predicateResult.err # "" THEN predicateResult
        ELSE IF isOr THEN Thrown(Unsupported, e.op)
        ELSE predicateResult
      Applied(predicateFn) ==
        IF predicateFn = NoFn THEN Thrown(Unsupported, e.op)
        ELSE IF impl # "bundle" THEN Assigned(Called(predicateFn, dsQuery, field, e.val))
        ELSE IF isOr THEN Thrown(Unsupported, e.op)
        ELSE Called(predicateFn, dsQuery, field, e.val)
  IN Applied(getOperator(ownOps, _operator, callOps))

RECURSIVE ApplyCriteria(_, _, _, _, _, _)
ApplyCriteria(ownOps, callOps, dsQuery, field, entries, i) ==
  IF i > Len(entries) THEN Compiled(dsQuery)
  ELSE LET Rest(r) ==
             IF r.err # "" THEN r
             ELSE ApplyCriteria(ownOps, callOps, r.q, field, entries, i + 1)
       IN Rest(ApplyEntry(ownOps, callOps, dsQuery, field, entries[i]))

\* forOwn(query.where, function (criteria, field) {...})
RECURSIVE ApplyWhere(_, _, _, _, _)
ApplyWhere(ownOps, callOps, dsQuery, where, i) ==
  IF i > Len(where) THEN Compiled(dsQuery)
  ELSE LET crit == where[i].crit IN
       IF ~crit.obj /\ crit.val.t = "undefined" THEN Thrown(TypeError, <<>>)
       ELSE LET Rest(r) ==
                  IF r.err # "" THEN r
                  ELSE ApplyWhere(ownOps, callOps, r.q, where, i + 1)
            IN Rest(ApplyCriteria(ownOps, callOps, dsQuery, where[i].field,
                                  OwnEntries(crit), 1))

\* Mutant of ApplySort: the clauses are applied from the last to the first.
RECURSIVE ApplySortBackwards(_, _, _)
ApplySortBackwards(dsQuery, clauses, i) ==
  IF i > Len(clauses) THEN Compiled(dsQuery)
  ELSE LET c == clauses[Len(clauses) + 1 - i]
           clause == IF c.t = "string" THEN SortDir(c.f, <<"a", "s", "c">>) ELSE c
       IN IF ~clause.hasDir \/ ~IsQuery(dsQuery) THEN Thrown(TypeError, <<>>)
          ELSE ApplySortBackwards(
                 Append(dsQuery,
                        OrderCall(clause.f, toUpperCase(clause.d) = <<"D", "E", "S", "C">>)),
                 clauses, i + 1)

\* query.orderBy.forEach(function (clause) {...}); clause[1] of a clause
\* without a direction has no toUpperCase, and a value that is no backend
\* query has no order.
RECURSIVE ApplySort(_, _, _)
ApplySort(dsQuery, clauses, i) ==
  IF i > Len(clauses) THEN Compiled(dsQuery)
  ELSE LET c == clauses[i]
           clause == IF c.t = "string" THEN SortDir(c.f, <<"a", "s", "c">>) ELSE c
       IN IF ~clause.hasDir \/ ~IsQuery(dsQuery) THEN Thrown(TypeError, <<>>)
          ELSE ApplySort(
                 Append(dsQuery,
                        OrderCall(clause.f, toUpperCase(clause.d) = <<"D", "E", "S", "C">>)),
                 clauses, i + 1)

\* filterQuery (mapper, query, opts): dsQuery is opts.query, callOps is
\* opts.operators, ownOps the adapter's operators.
filterQuery(ownOps, dsQuery, query, callOps) ==
  LET orderBy1 == IF TruthyOrder(query.orderBy) THEN query.orderBy ELSE query.sort
      orderBy2 == IF TruthyOrder(orderBy1) THEN orderBy1 ELSE OrderArr(<<>>)
      skip == IF Truthy(query.skip) THEN query.skip ELSE query.offset
      where == MoveShorthand(query.where, query.top, 1)
      clauses == IF orderBy2.t = "string"
                   THEN <<SortDir(orderBy2.s, <<"a", "s", "c">>)>>
                   ELSE orderBy2.a
      Sorted(filtered) ==
        IF filtered.err # "" THEN filtered ELSE ApplySort(filtered.q, clauses, 1)
      Skipped(sorted) ==
        IF sorted.err # "" \/ ~Truthy(skip) THEN sorted
        ELSE IF ~IsQuery(sorted.q) THEN Thrown(TypeError, <<>>)
        ELSE Compiled(Append(sorted.q, OffsetCall(ToNumber(skip))))
      Limited(skipped) ==
        IF skipped.err # "" \/ ~Truthy(query.limit) THEN skipped
        ELSE IF ~IsQuery(skipped.q) THEN Thrown(TypeError, <<>>)
        ELSE Compiled(Append(skipped.q, LimitCall(ToNumber(query.limit))))
  IN Limited(Skipped(Sorted(ApplyWhere(ownOps, callOps, dsQuery, where, 1))))

\* ------------------------------------------------------------------------
\* Records, mappers and the store
\* ------------------------------------------------------------------------

\* The mapper of the records under test: kind "post", id attribute "id",
\* one belongsTo relation to "user" (foreignKey userId, localField user).
Fields == {"id", "a", "b", "userId", "user"}
idAttribute == "id"
relationFields == {"user"}
foreignKey == "userId"
localField == "user"
Ids == 1..MaxId
\* The related kind is not written by the operations under test.
Users == {1}

\* A record maps each field to a value; a field it lacks is undefined.  A
\* related record attached under the local field is the object with its id.
Obj(i) == [t |-> "object", n |-> i, s |-> ""]
Rec(id, a, b, userId, user) ==
  [f \in Fields |->
     CASE f = "id" -> id [] f = "a" -> a [] f = "b" -> b
       [] f = "userId" -> userId [] OTHER -> user]
EmptyRec == [f \in Fields |-> Undefined]
IsRecord(r) == r # Undefined

\* Mutant of withoutRelations: the relation fields are kept.
withoutRelationsKept(props) == props

\* withoutRelations (mapper, props): props without the relation fields.
withoutRelations(props) ==
  [f \in Fields |-> IF f \in relationFields THEN Undefined ELSE props[f]]

\* utils.set(record, field, value)
set(record, field, value) == [record EXCEPT ![field] = value]

\* utils.deepMixIn(record, props): every own field of props is written
\* onto record.
\* Mutant of deepMixIn: the props replace the record.
deepMixInReplace(record, props) == props

deepMixIn(record, props) ==
  [f \in Fields |-> IF props[f] # Undefined THEN props[f] ELSE record[f]]

\* One filter call on one record, as the backend evaluates it.
Matches(rec, c) ==
  LET v == rec[c.field]
      cmp == Comparator(c.arg)
  IN
  CASE cmp = "=" -> v = c.val
    [] v.t # "number" \/ c.val.t # "number" -> FALSE
    [] cmp = ">" -> v.n > c.val.n
    [] cmp = ">=" -> v.n >= c.val.n
    [] cmp = "<" -> v.n < c.val.n
    [] cmp = "<=" -> v.n <= c.val.n
    [] OTHER -> FALSE

RECURSIVE Scan(_, _, _)
Scan(st, dsQuery, i) ==
  IF i > MaxId THEN <<>>
  ELSE IF IsRecord(st[i])
          /\ \A k \in 1..Len(dsQuery) :
               dsQuery[k].call = "filter" => Matches(st[i], dsQuery[k])
         THEN <<i>> \o Scan(st, dsQuery, i + 1)
         ELSE Scan(st, dsQuery, i + 1)

\* dataset.runQuery(dsQuery, ...): the keys of the matching entities in key
\* order (the queries of the operations under test carry no order clause).
RunQueryKeys(st, dsQuery) ==
  LET all == Scan(st, dsQuery, 1)
      offs == {k \in 1..Len(dsQuery) : dsQuery[k].call = "offset"}
      lims == {k \in 1..Len(dsQuery) : dsQuery[k].call = "limit"}
      from == IF offs = {} THEN 0 ELSE dsQuery[CHOOSE k \in offs : TRUE].val.n
      rest == IF from >= Len(all) THEN <<>> ELSE SubSeq(all, from + 1, Len(all))
      n == IF lims = {} THEN Len(rest) ELSE dsQuery[CHOOSE k \in lims : TRUE].val.n
  IN IF n >= Len(rest) THEN rest ELSE SubSeq(rest, 1, n)

\* A query with only the named parts.
Query(top, where) ==
  [top |-> top, where |-> where, orderBy |-> NoOrder, sort |-> NoOrder,
   limit |-> Undefined, skip |-> Undefined, offset |-> Undefined]

\* ------------------------------------------------------------------------
\* The adapter's state
\* ------------------------------------------------------------------------
VARIABLES
  others,    \* the calls of other callers in flight on the same kind
  operators, \* this.operators: the adapter's own operator table
  store,     \* the entities of kind "post": store[id] is the data or undefined
  nextId,    \* the next id allocateIds hands out
  call,      \* the operation being executed and its arguments
  pc,        \* where the operation stands
  records,   \* the records the operation works on (created, found, matched)
  keys,      \* the keys allocated for a create
  log,       \* the calls made to the storage collaborator by this operation
  result,    \* what the operation's pending result settled to
  before,    \* the store as it was when the operation was called
  query,     \* compiler runs: the query and option tables given to filterQuery
  compiled,  \* compiler runs: what filterQuery returned or threw
  lookup,    \* operator lookups: the tables and the symbol given to getOperator
  predicate  \* operator lookups: what getOperator returned

vars == <<impl, others, operators, store, nextId, call, pc, records, keys, log, result, before,
          query, compiled, lookup, predicate>>
adapterVars ==
  <<impl, others, operators, store, nextId, call, pc, records, keys, log, result, before>>
compilerVars == <<query, compiled, lookup, predicate>>

\* No other caller has a call in flight: got holds the updates of other
\* callers that have read their record and not yet saved it, calls counts
\* the calls other callers have started.
NoOthers == [got |-> {}, calls |-> 0]

\* No compiler run and no operator lookup has been made.
NoQuery == [q |-> Query(<<>>, <<>>), ownOps |-> NoOverrides, callOps |-> NoOverrides]
NotCompiled == [err |-> "pending", operator |-> <<>>, q |-> <<>>]
NoLookup == [operator |-> <<>>, ownOps |-> NoOverrides, callOps |-> NoOverrides]
Unresolved == "pending"

\* ------------------------------------------------------------------------
\* Inputs of the operations
\* ------------------------------------------------------------------------
\* What a lifecycle hook does: it returns undefined or a value, or it fails
\* (it throws, or the pending result it returns is rejected).
NoReply == [defined |-> FALSE, value |-> Undefined, throws |-> FALSE]
Reply(v) == [defined |-> TRUE, value |-> v, throws |-> FALSE]
Throws == [defined |-> FALSE, value |-> Undefined, throws |-> TRUE]

\* A call: the operation, its arguments as the operation uses them (props,
\* list and query after the before-hook's re-assignment), the primary
\* argument as the caller gave it, what the hooks returned, the mapper's
\* name and kind and opts.kind, and where each of the finds it started
\* together stands ("asked", "answered" or "failed"; <<>> before they start).
Idle == [op |-> "idle", id |-> 0, props |-> EmptyRec, list |-> <<>>, paired |-> <<>>,
         gets |-> <<>>,
         query |-> Query(<<>>, <<>>), with |-> {}, operators |-> NoOverrides,
         given |-> Undefined, hooked |-> NoReply, after |-> NoReply,
         mapper |-> [name |-> Str("post"), kind |-> Undefined], kind |-> Undefined]
Pending == [state |-> "pending", record |-> Undefined, data |-> <<>>,
            count |-> 0, error |-> ""]
Resolved(record, data, count) ==
  [state |-> "resolved", record |-> record, data |-> data, count |-> count, error |-> ""]
\* Mutant of Rejected: the adapter rejects with an error of its own.
RejectedWrapped(error) ==
  [state |-> "rejected", record |-> Undefined, data |-> <<>>, count |-> 0,
   error |-> "Error"]

Rejected(error) ==
  [state |-> "rejected", record |-> Undefined, data |-> <<>>, count |-> 0, error |-> error]

\* Errors: the one a storage call reports, the one a hook fails with, and
\* the ones the adapter throws.
StorageError == "StorageError"
HookError == "HookError"
NotFound == "Not Found"
BelongsToUnsupported == "findAll with belongsTo not supported!"

\* Props given to create and createMany; the last carries a relation field.
NewProps ==
  { Rec(Undefined, Num(1), Undefined, Undefined, Undefined),
    Rec(Undefined, Num(2), Num(1), Num(1), Obj(1)) }
\* Props given to update and updateAll: partial records; the last carries
\* a relation field.
SomeProps ==
  { Rec(Undefined, Num(2), Undefined, Undefined, Undefined),
    Rec(Undefined, Undefined, Num(2), Num(1), Obj(1)) }
\* Records given to updateMany: props with the id of the record to change.
ManyProps ==
  { set(p, idAttribute, Num(i)) : p \in SomeProps, i \in Ids }
\* Queries given to findAll, updateAll and destroyAll: everything, a = 1 as
\* a top-level shorthand, and a > 1 under where.
Queries ==
  { Query(<<>>, <<>>),
    Query(<<Clause("a", Bare(Num(1)))>>, <<>>),
    Query(<<>>, <<Clause("a", Criteria(<<Entry(OpGt, Num(1))>>))>>) }
Withs == { {}, {localField} }

Lists(S, n) == UNION { [1..k -> S] : k \in 0..n }

\* ------------------------------------------------------------------------
\* create and createMany
\* ------------------------------------------------------------------------
CreateOps == {"create", "createMany"}
UpdateOps == {"update", "updateAll", "updateMany"}
QueryOps == {"findAll", "updateAll", "destroyAll"}

\* The lifecycle hooks of the public operations.
BeforeHook(op) ==
  CASE op = "create" -> "beforeCreate"
    [] op = "createMany" -> "beforeCreateMany"
    [] op = "destroy" -> "beforeDestroy"
    [] op = "destroyAll" -> "beforeDestroyAll"
    [] op = "find" -> "beforeFind"
    [] op = "findAll" -> "beforeFindAll"
    [] op = "update" -> "beforeUpdate"
    [] op = "updateAll" -> "beforeUpdateAll"
    [] op = "updateMany" -> "beforeUpdateMany"
AfterHook(op) ==
  CASE op = "create" -> "afterCreate"
    [] op = "createMany" -> "afterCreateMany"
    [] op = "destroy" -> "afterDestroy"
    [] op = "destroyAll" -> "afterDestroyAll"
    [] op = "find" -> "afterFind"
    [] op = "findAll" -> "afterFindAll"
    [] op = "update" -> "afterUpdate"
    [] op = "updateAll" -> "afterUpdateAll"
    [] op = "updateMany" -> "afterUpdateMany"

\* The hook calls are recorded for the sources that make them themselves
\* (unnamed/part_000 and the first build); the public operations of the
\* other two are those of the Adapter class they extend.
Hooked(names) == IF impl \in OwnLifecycle THEN names ELSE <<>>
Times(n, name) == [i \in 1..n |-> name]

\* n calls of self.find started together from inside an operation
\* (Promise.all of records.map): each runs beforeFind and then calls
\* dataset.get, all of them before the first get is answered.
Started(n) ==
  IF call.gets = <<>> THEN Hooked(Times(n, "beforeFind")) \o Times(n, "get") ELSE <<>>

\* One self.find from inside an operation: beforeFind, the get, then (when
\* the get succeeds) afterFind.
NestedFind(n, ok) ==
  Hooked(Times(n, "beforeFind")) \o Times(n, "get")
    \o (IF ok THEN Hooked(Times(n, "afterFind")) ELSE <<>>)

\* The before-hook's re-assignment: isUndefined(_props) ? props : _props
Reassigned(given, reply) == IF reply.defined THEN reply.value ELSE given

\* The storage work has ended: a failure rejects the call; a response goes
\* to the after-hook where the source runs one.
Settle(r) ==
  /\ result' = r
  /\ pc' = IF r.state = "resolved" /\ impl \in OwnLifecycle THEN "after" ELSE "done"

\* Adapter#create, createMany, update, updateAll and updateMany of
\* js-data-adapter, the class the adapters of src/index.js and of the bundle
\* extend, run the public operation and hand its props to _create,
\* _createMany, _update, _updateAll and _updateMany.  The package is not
\* among the sources; as the specification has it, the declared relation
\* fields are stripped from the input before a write.  The legacy source
\* and the first build implement the public operations themselves.
Handed(props) ==
  IF impl \in OwnLifecycle THEN props
  ELSE [f \in Fields |-> IF f \in relationFields THEN Undefined ELSE props[f]]

\* "Remove relations" at the head of _create / _createHelper; the bundle's
\* _createHelper has no such step and copies the records as they are
\* handed to it.
Prepared(props) == IF impl = "bundle" THEN props ELSE withoutRelations(props)

\* Mutant of Aborted: a hook that fails is taken as one that returned.
AbortedNever(reply) == FALSE

\* The hook's failure ends the promise chain of the operation: none of the
\* callbacks chained after the hook runs.
Aborted(reply) == reply.throws

\* The operation is called: its before-hook runs first, and the storage
\* work is chained onto what the hook returns.
Enter(c, at) ==
  /\ pc = "idle"
  /\ call' = c
  /\ pc' = IF Aborted(c.hooked) THEN "done" ELSE at
  /\ log' = Hooked(<<BeforeHook(c.op)>>)
  /\ result' = IF Aborted(c.hooked) THEN Rejected(HookError) ELSE Pending
  /\ before' = store
  /\ keys' = <<>>
  /\ UNCHANGED <<impl, others, operators, store, nextId, compilerVars>>

\* create (mapper, props, opts); beforeCreate returns reply
Create(props, reply) ==
  LET _props == Reassigned(props, reply) IN
  /\ nextId <= MaxId
  /\ Enter([Idle EXCEPT !.op = "create", !.props = _props,
                        !.given = props, !.hooked = reply], "begin")
  /\ records' = <<Prepared(Handed(_props))>>

\* createMany (mapper, props, opts); beforeCreateMany returns reply
CreateMany(list, reply) ==
  LET _props == Reassigned(list, reply) IN
  /\ nextId + Len(_props) - 1 <= MaxId
  /\ Enter([Idle EXCEPT !.op = "createMany", !.list = _props,
                        !.given = list, !.hooked = reply], "begin")
  /\ records' = [i \in 1..Len(_props) |-> Prepared(Handed(_props[i]))]

\* self.dataset.runInTransaction(function (transaction, done) {...}, function (err) {...})
\* begins a transaction; when that fails the final callback gets the error.
BeginTransaction(ok) ==
  /\ pc = "begin"
  /\ log' = Append(log, "runInTransaction")
  /\ IF ok THEN pc' = "allocate" /\ UNCHANGED result
     ELSE Settle(Rejected(StorageError))
  /\ UNCHANGED <<impl, others, operators, store, nextId, call, records, keys, before, compilerVars>>

\* Mutant of Stamped: the allocated id is not set on the record.
StampedNot(record, key) == record

\* set(_record, idAttribute, keys[i].path[1])
Stamped(record, key) == set(record, idAttribute, Num(key))

\* transaction.allocateIds(incompleteKey, records.length, function (err, keys) {...}):
\* on success each record gets its key's id set under the id attribute.
AllocateIds(ok) ==
  /\ pc = "allocate"
  /\ log' = Append(log, "allocateIds")
  /\ IF ok
       THEN /\ keys' = [i \in 1..Len(records) |-> nextId + i - 1]
            /\ nextId' = nextId + Len(records)
            /\ records' = [i \in 1..Len(records) |-> Stamped(records[i], nextId + i - 1)]
            /\ pc' = "save"
            /\ UNCHANGED result
       ELSE /\ Settle(Rejected(StorageError))
            /\ UNCHANGED <<keys, nextId, records>>
  /\ UNCHANGED <<impl, others, operators, store, call, before, compilerVars>>

\* The store after dataset.save(entities) of data[i] under key ks[i].
Saved(st, ks, data) ==
  [id \in Ids |->
     IF \E i \in 1..Len(ks) : ks[i] = id
       THEN data[CHOOSE i \in 1..Len(ks) : ks[i] = id /\ \A j \in i + 1..Len(ks) : ks[j] # id]
       ELSE st[id]]

\* self.dataset.save(entities, function (err, _apiResponse) {...}) of a create:
\* the write goes to the dataset, not to the transaction; then done().
SaveCreated(ok) ==
  /\ pc = "save"
  /\ call.op \in CreateOps
  /\ log' = Append(log, "save")
  /\ IF ok
       THEN /\ store' = Saved(store, keys, records)
            /\ pc' = "commit"
            /\ UNCHANGED result
       ELSE /\ Settle(Rejected(StorageError))
            /\ UNCHANGED store
  /\ UNCHANGED <<impl, others, operators, nextId, call, records, keys, before, compilerVars>>

\* Mutant of CreatedResponse: createMany counts as create does.
CreatedResponseTruthy ==
  IF call.op = "create"
    THEN Resolved(records[1], <<>>, IF IsRecord(records[1]) THEN 1 ELSE 0)
    ELSE Resolved(Undefined, records, 1)

\* create: apiResponse.created = record ? 1 : 0
\* createMany: apiResponse.created = records.length
CreatedResponse ==
  IF call.op = "create"
    THEN Resolved(records[1], <<>>, IF IsRecord(records[1]) THEN 1 ELSE 0)
    ELSE Resolved(Undefined, records, Len(records))

\* done() commits the transaction and hands its outcome to the final
\* callback: reject(err), or resolve with the records.
Commit(ok) ==
  /\ pc = "commit"
  /\ log' = Append(log, "commit")
  /\ IF ok THEN Settle(CreatedResponse) ELSE Settle(Rejected(StorageError))
  /\ UNCHANGED <<impl, others, operators, store, nextId, call, records, keys, before, compilerVars>>

\* ------------------------------------------------------------------------
\* find, findAll and the relation loading
\* ------------------------------------------------------------------------
\* find (mapper, id, opts); what beforeFind returns is not read
Find(id, with, reply) ==
  /\ Enter([Idle EXCEPT !.op = "find", !.id = id, !.with = with,
                        !.hooked = reply], "get")
  /\ records' = <<>>

\* findAll (mapper, query, opts), opts.operators = ops; what beforeFindAll
\* returns is not read
FindAll(q, with, ops, reply) ==
  /\ Enter([Idle EXCEPT !.op = "findAll", !.query = q, !.with = with,
                        !.operators = ops, !.given = q, !.hooked = reply], "query")
  /\ records' = <<>>

\* find: apiResponse = { data: record, found: record ? 1 : 0 }
FoundResponse(record) == Resolved(record, <<>>, IF IsRecord(record) THEN 1 ELSE 0)

\* Mutant of Exists: update goes on whatever the find returned.
ExistsAlways(record) == TRUE

\* if (record) {...} else { throw new Error('Not Found') }
Exists(record) == IsRecord(record)

\* self.dataset.get(key, function (err, entity) {...}) of find, and of the
\* find that update starts with.
Get(ok) ==
  /\ pc = "get"
  /\ log' = log \o (IF call.op = "update" THEN NestedFind(1, ok) ELSE <<"get">>)
  /\ LET record == store[call.id] IN
     IF ~ok THEN Settle(Rejected(StorageError)) /\ UNCHANGED records
     ELSE IF call.op = "update"
       THEN IF Exists(record)
              THEN pc' = "save" /\ records' = <<record>> /\ UNCHANGED result
              ELSE Settle(Rejected(NotFound)) /\ UNCHANGED records
     ELSE IF localField \notin call.with
       THEN Settle(FoundResponse(record)) /\ UNCHANGED records
     ELSE IF IsRecord(record)
       THEN pc' = "related" /\ records' = <<record>> /\ UNCHANGED result
     ELSE IF impl \in OwnLifecycle
       THEN Settle(Rejected(TypeError)) /\ UNCHANGED records
       ELSE Settle(FoundResponse(record)) /\ UNCHANGED records
  /\ UNCHANGED <<impl, others, operators, store, nextId, call, keys, before, compilerVars>>

\* The related record a find of the related mapper yields for a foreign key.
Related(fk) == IF fk.t = "number" /\ fk.n \in Users THEN Obj(fk.n) ELSE Undefined

\* belongsTo of a single record: self.find(relatedMapper, get(record,
\* def.foreignKey), __opts), then set(record, def.localField, relatedItem).
\* The first build calls self.loadBelongsTo(mapper, def, record, __opts) of
\* the Adapter class for it, which makes the same find through self.find
\* and attaches what it yields; handed the undefined of a find that found
\* nothing it throws a TypeError, as get(undefined, def.foreignKey) of the
\* legacy source does.
GetRelated(ok) ==
  /\ pc = "related"
  /\ log' = log \o NestedFind(1, ok)
  /\ IF ok
       THEN LET record == set(records[1], localField, Related(records[1][foreignKey])) IN
            /\ records' = <<record>>
            /\ Settle(FoundResponse(record))
       ELSE Settle(Rejected(StorageError)) /\ UNCHANGED records
  /\ UNCHANGED <<impl, others, operators, store, nextId, call, keys, before, compilerVars>>

\* What follows the query of findAll, updateAll and destroyAll once
\* runQuery has answered with the matching records.
AfterQuery(found) ==
  CASE call.op = "findAll" ->
         IF localField \notin call.with
           THEN Settle(Resolved(Undefined, found, Len(found)))
         ELSE IF impl = "legacy" THEN pc' = "relatedAll" /\ UNCHANGED result
         ELSE Settle(Rejected(BelongsToUnsupported))
    [] call.op = "updateAll" ->
         IF Len(found) # 0 THEN pc' = "save" /\ UNCHANGED result
         ELSE Settle(Resolved(Undefined, <<>>, 0))
    [] call.op = "destroyAll" ->
         IF Len(found) # 0 \/ impl = "bundle" THEN pc' = "delete" /\ UNCHANGED result
         ELSE Settle(Resolved(Undefined, <<>>, 0))

\* The opts.operators that reach filterQuery: the bundle hands the call's
\* opts on; _findAll / findAll of the others call
\* self.filterQuery(mapper, query, { query: dsQuery }), and their
\* destroyAll and updateAll call findAll with opts of their own.
PassedOperators == IF impl = "bundle" THEN call.operators ELSE NoOverrides

\* dsQuery = self.filterQuery(mapper, query, { query: dsQuery }), then
\* self.dataset.runQuery(dsQuery, function (err, entities) {...}); a query
\* the compiler throws on rejects before runQuery is called.
RunQuery(ok) ==
  /\ pc = "query"
  /\ LET c == filterQuery(operators, <<>>, call.query, PassedOperators)
         ks == RunQueryKeys(store, c.q)
         found == [i \in 1..Len(ks) |-> store[ks[i]]]
         nested == call.op # "findAll"
     IN IF c.err # ""
          THEN /\ Settle(Rejected(c.err))
               /\ log' = log \o (IF nested THEN Hooked(<<"beforeFindAll">>) ELSE <<>>)
               /\ UNCHANGED <<records, keys>>
        ELSE /\ log' = log \o (IF nested THEN Hooked(<<"beforeFindAll">>) ELSE <<>>)
                           \o <<"runQuery">>
                           \o (IF nested /\ ok THEN Hooked(<<"afterFindAll">>) ELSE <<>>)
             /\ IF ok THEN records' = found /\ keys' = ks /\ AfterQuery(found)
                ELSE Settle(Rejected(StorageError)) /\ UNCHANGED <<records, keys>>
  /\ compiled' = filterQuery(operators, <<>>, call.query, PassedOperators)
  /\ UNCHANGED <<impl, others, operators, store, nextId, call, before, query, lookup, predicate>>

\* The legacy findAll loads belongsTo for the whole result: one find per
\* record with a truthy foreign key, started together and awaited jointly,
\* each with a dataset.get of its own; one step is the answer to one of the
\* gets.  The first get that fails rejects the call; the finds still
\* unanswered run on (afterFind is called for each that succeeds).  When all
\* have succeeded each related record is set on the records whose foreign
\* key is its id; a related record that does not exist makes
\* relatedItem[relatedMapper.idAttribute] throw.
LoadRelatedAll(ok) ==
  /\ pc = "relatedAll"
  /\ LET fks == SelectSeq([i \in 1..Len(records) |-> records[i][foreignKey]], Truthy)
         n == Len(fks)
         gets == IF call.gets = <<>> THEN Times(n, "asked") ELSE call.gets
         loaded == [i \in 1..Len(records) |->
                      IF Truthy(records[i][foreignKey])
                        THEN set(records[i], localField, Related(records[i][foreignKey]))
                        ELSE records[i]]
     IN IF n = 0
          THEN /\ Settle(Resolved(Undefined, records, Len(records)))
               /\ UNCHANGED <<records, call, log>>
          ELSE \E i \in {k \in 1..n : gets[k] = "asked"} :
                 LET answered == [gets EXCEPT ![i] = IF ok THEN "answered" ELSE "failed"]
                     failed == \E k \in 1..n : answered[k] = "failed"
                 IN /\ log' = log \o Started(n) \o (IF ok THEN Hooked(<<"afterFind">>) ELSE <<>>)
                    /\ call' = [call EXCEPT !.gets = answered]
                    /\ IF \E k \in 1..n : answered[k] = "asked"
                         THEN /\ pc' = pc
                              /\ result' = IF failed THEN Rejected(StorageError) ELSE result
                              /\ UNCHANGED records
                       ELSE IF failed
                         THEN Settle(Rejected(StorageError)) /\ UNCHANGED records
                       ELSE IF \E k \in 1..n : Related(fks[k]) = Undefined
                         THEN Settle(Rejected(TypeError)) /\ UNCHANGED records
                       ELSE /\ records' = loaded
                            /\ Settle(Resolved(Undefined, loaded, Len(loaded)))
  /\ UNCHANGED <<impl, others, operators, store, nextId, keys, before, compilerVars>>

\* ------------------------------------------------------------------------
\* update, updateAll and updateMany
\* ------------------------------------------------------------------------
\* update (mapper, id, props, opts); beforeUpdate returns reply
Update(id, props, reply) ==
  /\ Enter([Idle EXCEPT !.op = "update", !.id = id,
                        !.props = Handed(Reassigned(props, reply)),
                        !.given = props, !.hooked = reply], "get")
  /\ records' = <<>>

\* updateAll (mapper, props, query, opts), opts.operators = ops;
\* beforeUpdateAll returns reply, which is assigned to props
UpdateAll(props, q, ops, reply) ==
  /\ Enter([Idle EXCEPT !.op = "updateAll", !.props = Handed(Reassigned(props, reply)),
                        !.query = q, !.operators = ops,
                        !.given = q, !.hooked = reply], "query")
  /\ records' = <<>>

\* updateMany (mapper, records, opts); beforeUpdateMany returns reply
UpdateMany(list, reply) ==
  /\ Enter([Idle EXCEPT !.op = "updateMany",
                        !.list = [i \in 1..Len(Reassigned(list, reply)) |->
                                    Handed(Reassigned(list, reply)[i])],
                        !.given = list, !.hooked = reply], "getMany")
  /\ records' = <<>>

HasId(record) == record[idAttribute] # Undefined

\* Mutant of Fetched: the record the caller supplied stands for the stored one.
FetchedSupplied(st, record) == record

\* self.find(mapper, get(record, idAttribute)): the stored record of that id.
Fetched(st, record) ==
  IF HasId(record) /\ record[idAttribute].n \in Ids
    THEN st[record[idAttribute].n] ELSE Undefined

\* The finds updateMany starts with, one per record, started together and
\* awaited jointly, each with a dataset.get of its own; one step is the
\* answer to one of the gets, which reads the store as it is then.  The
\* first get that fails rejects the call; the finds still unanswered run on
\* (afterFind is called for each that succeeds).  The updateMany of the
\* legacy source and of the first build drops the records without an id
\* first; the bundle's _updateMany drops
\* the records that were not found, and their props.
GetMany(ok) ==
  /\ pc = "getMany"
  /\ LET asked == IF impl \in OwnLifecycle THEN SelectSeq(call.list, HasId)
                  ELSE call.list
         n == Len(asked)
         gets == IF call.gets = <<>> THEN Times(n, "asked") ELSE call.gets
         sofar == IF call.gets = <<>> THEN Times(n, Undefined) ELSE records
     IN IF n = 0
          THEN /\ Settle(Resolved(Undefined, <<>>, 0))
               /\ UNCHANGED <<records, call, log>>
          ELSE \E i \in {k \in 1..n : gets[k] = "asked"} :
                 LET answered == [gets EXCEPT ![i] = IF ok THEN "answered" ELSE "failed"]
                     failed == \E k \in 1..n : answered[k] = "failed"
                     found == [sofar EXCEPT ![i] = IF ok THEN Fetched(store, asked[i])
                                                  ELSE Undefined]
                     kept == {k \in 1..n : IsRecord(found[k])}
                     Pick(seq) ==
                       LET RECURSIVE P(_)
                           P(k) == IF k > Len(seq) THEN <<>>
                                   ELSE IF k \in kept THEN <<seq[k]>> \o P(k + 1)
                                   ELSE P(k + 1)
                       IN P(1)
                     _records == IF impl = "bundle" THEN Pick(found) ELSE found
                     props == IF impl = "bundle" THEN Pick(asked) ELSE call.list
                 IN /\ log' = log \o Started(n) \o (IF ok THEN Hooked(<<"afterFind">>) ELSE <<>>)
                    /\ IF \E k \in 1..n : answered[k] = "asked"
                         THEN /\ pc' = pc
                              /\ result' = IF failed THEN Rejected(StorageError) ELSE result
                              /\ records' = found
                              /\ call' = [call EXCEPT !.gets = answered]
                       ELSE IF failed
                         THEN /\ Settle(Rejected(StorageError))
                              /\ records' = found
                              /\ call' = [call EXCEPT !.gets = answered]
                       ELSE IF Len(_records) = 0
                         THEN /\ Settle(Resolved(Undefined, <<>>, 0))
                              /\ records' = _records
                              /\ call' = [call EXCEPT !.gets = answered]
                       ELSE /\ records' = _records
                            /\ call' = [call EXCEPT !.gets = answered, !.paired = props]
                            /\ pc' = "save"
                            /\ UNCHANGED result
  /\ UNCHANGED <<impl, others, operators, store, nextId, keys, before, compilerVars>>

\* Mutant of PropsOf: nothing is merged onto the records.
PropsOfNone(i) == EmptyRec

\* The props _update / _updateHelper merges onto records[i].
PropsOf(i) ==
  IF call.op = "updateMany"
    THEN (IF i <= Len(call.paired) THEN call.paired[i] ELSE EmptyRec)
    ELSE call.props

\* records.forEach(function (record, i) {...}) of _update / _updateHelper:
\* a record that is undefined or has no id is skipped; the others are
\* merged with props[i] and saved under their id, relations removed
\* (the bundle's _updateHelper saves the record as it is).
RECURSIVE Entities(_)
Entities(i) ==
  IF i > Len(records) THEN <<>>
  ELSE IF ~IsRecord(records[i]) \/ ~HasId(records[i]) THEN Entities(i + 1)
  ELSE LET record == deepMixIn(records[i], PropsOf(i)) IN
       <<[key |-> records[i][idAttribute].n,
          data |-> IF impl = "bundle" THEN record ELSE withoutRelations(record),
          record |-> record]>> \o Entities(i + 1)

\* update: apiResponse.data = record, apiResponse.updated = 1
\* updateAll, updateMany: apiResponse.data = records, apiResponse.updated = records.length
\* With no record left to save, _update of the legacy source and of the
\* first build resolves a single record with undefined, and update's
\* let [apiResponse, record] = result throws on it; _updateHelper of the
\* other two resolves with [undefined, {}].
UpdatedResponse(_records) ==
  IF call.op = "update"
    THEN IF Len(_records) = 0
           THEN (IF impl \in OwnLifecycle THEN Rejected(TypeError)
                 ELSE Resolved(Undefined, <<>>, 1))
           ELSE Resolved(_records[1], <<>>, 1)
    ELSE Resolved(Undefined, _records, Len(_records))

\* self.dataset.save(entities, function (err, apiResponse) {...}) of an
\* update; nothing is saved when no record is left to update (the update
\* of the legacy source and of the first build then rejects, and
\* afterUpdate is not called).
SaveUpdated(ok) ==
  /\ pc = "save"
  /\ call.op \in UpdateOps
  /\ LET entities == Entities(1)
         _records == [i \in 1..Len(entities) |-> entities[i].record]
     IN IF Len(entities) = 0
          THEN Settle(UpdatedResponse(<<>>)) /\ UNCHANGED <<store, log>>
        ELSE /\ log' = Append(log, "save")
             /\ IF ok
                  THEN /\ store' = Saved(store,
                                         [i \in 1..Len(entities) |-> entities[i].key],
                                         [i \in 1..Len(entities) |-> entities[i].data])
                       /\ Settle(UpdatedResponse(_records))
                  ELSE Settle(Rejected(StorageError)) /\ UNCHANGED store
  /\ UNCHANGED <<impl, others, operators, nextId, call, records, keys, before, compilerVars>>

\* ------------------------------------------------------------------------
\* destroy and destroyAll
\* ------------------------------------------------------------------------
\* destroy (mapper, id, opts); what beforeDestroy returns is not read
Destroy(id, reply) ==
  /\ Enter([Idle EXCEPT !.op = "destroy", !.id = id, !.hooked = reply], "delete")
  /\ records' = <<>>

\* destroyAll (mapper, query, opts), opts.operators = ops; what
\* beforeDestroyAll returns is not read
DestroyAll(q, ops, reply) ==
  /\ Enter([Idle EXCEPT !.op = "destroyAll", !.query = q, !.operators = ops,
                        !.given = q, !.hooked = reply], "query")
  /\ records' = <<>>

\* The keys handed to dataset.delete: the key of the id; for destroyAll the
\* keys of the matched records that have an id (the bundle's _destroyAll:
\* the keys the keys-only query returned).
DeleteKeys ==
  IF call.op = "destroy" THEN {call.id}
  ELSE IF impl = "bundle" THEN {keys[i] : i \in 1..Len(keys)}
  ELSE {records[i][idAttribute].n : i \in {j \in 1..Len(records) : HasId(records[j])}}

\* self.dataset.delete(keys, function (err, apiResponse) {...}); destroy
\* reports deleted from the backend's answer; the legacy destroyAll sets
\* deleted = records.length, the number of records its query matched, while
\* destroyAll of the first build and _destroyAll of the other two resolve
\* with the backend's answer alone: the entities the delete removed.
Delete(ok) ==
  /\ pc = "delete"
  /\ log' = Append(log, "delete")
  /\ IF ok
       THEN /\ store' = [id \in Ids |-> IF id \in DeleteKeys THEN Undefined ELSE store[id]]
            /\ Settle(Resolved(Undefined, <<>>,
                               IF call.op = "destroyAll" /\ impl = "legacy"
                                 THEN Len(records)
                                 ELSE Cardinality({id \in DeleteKeys : IsRecord(store[id])})))
       ELSE Settle(Rejected(StorageError)) /\ UNCHANGED store
  /\ UNCHANGED <<impl, others, operators, nextId, call, records, keys, before, compilerVars>>

\* The after-hook, called with the computed response: the call resolves
\* with what the hook returns unless that is undefined.  direct: the hook
\* returns its value as it is, not through a pending result.  The hooks are
\* chained with resolve(self[op](...)).then(...), which takes a plain value
\* and a pending result alike; the legacy destroyAll chains
\* self[op](...).then(...) onto what afterDestroyAll returns (the first
\* build has resolve(...) there too), which is a TypeError unless the hook
\* returned a pending result.
RunAfterHook(reply, direct) ==
  /\ pc = "after"
  /\ log' = Append(log, AfterHook(call.op))
  /\ call' = [call EXCEPT !.after = reply]
  /\ result' = IF Aborted(reply) THEN Rejected(HookError)
               ELSE IF call.op = "destroyAll" /\ impl = "legacy" /\ direct
                 THEN Rejected(TypeError)
               ELSE Reassigned(result, reply)
  /\ pc' = "done"
  /\ UNCHANGED <<impl, others, operators, store, nextId, records, keys, before, compilerVars>>

\* The caller takes the result; the adapter is ready for the next call.
Return ==
  /\ pc = "done"
  /\ pc' = "idle"
  /\ call' = Idle
  /\ records' = <<>>
  /\ keys' = <<>>
  /\ log' = <<>>
  /\ result' = Pending
  /\ before' = store
  /\ compiled' = NotCompiled
  /\ UNCHANGED <<impl, others, operators, store, nextId, query, lookup, predicate>>

\* ------------------------------------------------------------------------
\* The adapter's specification
\* ------------------------------------------------------------------------
\* The symbols '==', '>' (built in), '!=' and 'near' (not built in).
TableSymbols == {OpEq, OpGt, OpNe, <<"n", "e", "a", "r">>}
\* The comparison symbols of a query.
ComparisonSymbols == {OpEq, OpEqq, OpNe, OpNee, OpGt, OpGe, OpLt, OpLe}
BuiltIn == {OpEq, OpEqq, OpGt, OpGe, OpLt, OpLe}
\* The tables that give the predicate fn to some of the symbols.
Tables(fn) == UNION {[dom -> {fn}] : dom \in SUBSET TableSymbols}

\* utils.fillIn(this.operators, OPERATORS) of the bundle's constructor: each
\* of the six built-in predicates is copied under its symbol when the table
\* lacks the symbol or holds undefined for it; the other keys of the table
\* stay as they are, one held undefined too.  fillIn asks
\* dest.hasOwnProperty(key) for each symbol, and throws a TypeError when the
\* table has a key hasOwnProperty of its own: undefined is not a function,
\* and a predicate of the tables calls filter on the symbol it is handed.
fillIn(dest) ==
  IF OpHasOwnProperty \in DOMAIN dest THEN [err |-> TypeError, table |-> dest]
  ELSE [err |-> "",
        table |-> [op \in DOMAIN dest \cup BuiltIn |->
                     IF op \in BuiltIn /\ (op \notin DOMAIN dest \/ dest[op] = NoFn)
                       THEN OPERATORS(op)
                       ELSE dest[op]]]

\* new CloudDatastoreAdapter({operators: given}): this.operators after the
\* construction (table), or the error the constructor throws (err).
Constructed(given) ==
  IF impl = "bundle" THEN fillIn(given) ELSE [err |-> "", table |-> given]


Init ==
  /\ impl \in Impls
  /\ others = NoOthers
  /\ operators = Constructed(NoOverrides).table
  /\ store = [id \in Ids |-> Undefined]
  /\ nextId = 1
  /\ call = Idle
  /\ pc = "idle"
  /\ records = <<>>
  /\ keys = <<>>
  /\ log = <<>>
  /\ result = Pending
  /\ before = [id \in Ids |-> Undefined]
  /\ query = NoQuery
  /\ compiled = NotCompiled
  /\ lookup = NoLookup
  /\ predicate = Unresolved

Next ==
  \/ \E props \in NewProps : Create(props, NoReply)
  \/ \E list \in Lists(NewProps, MaxBatch) : CreateMany(list, NoReply)
  \/ \E id \in Ids, with \in Withs : Find(id, with, NoReply)
  \/ \E q \in Queries, with \in Withs : FindAll(q, with, NoOverrides, NoReply)
  \/ \E id \in Ids, props \in SomeProps : Update(id, props, NoReply)
  \/ \E props \in SomeProps, q \in Queries : UpdateAll(props, q, NoOverrides, NoReply)
  \/ \E list \in Lists(ManyProps, MaxBatch) : UpdateMany(list, NoReply)
  \/ \E id \in Ids : Destroy(id, NoReply)
  \/ \E q \in Queries : DestroyAll(q, NoOverrides, NoReply)
  \/ \E ok \in BOOLEAN : BeginTransaction(ok)
  \/ \E ok \in BOOLEAN : AllocateIds(ok)
  \/ \E ok \in BOOLEAN : SaveCreated(ok)
  \/ \E ok \in BOOLEAN : Commit(ok)
  \/ \E ok \in BOOLEAN : Get(ok)
  \/ \E ok \in BOOLEAN : GetRelated(ok)
  \/ \E ok \in BOOLEAN : RunQuery(ok)
  \/ \E ok \in BOOLEAN : LoadRelatedAll(ok)
  \/ \E ok \in BOOLEAN : GetMany(ok)
  \/ \E ok \in BOOLEAN : SaveUpdated(ok)
  \/ \E ok \in BOOLEAN : Delete(ok)
  \/ RunAfterHook(NoReply, FALSE)
  \/ Return

Spec == Init /\ [][Next]_vars

\* ------------------------------------------------------------------------
\* The specification of the operations that run a query, on an adapter
\* constructed with or without a predicate of its own for '==' and called
\* with or without a per-call predicate for '=='
\* ------------------------------------------------------------------------
CallTables == {NoOverrides, [op \in {OpEq} |-> CallPredicate]}

InitOverrides ==
  /\ impl \in Impls
  /\ others = NoOthers
  /\ operators \in {Constructed(given).table :
                      given \in {NoOverrides, [op \in {OpEq} |-> OwnPredicate]}}
  /\ store = [id \in Ids |-> Undefined]
  /\ nextId = 1
  /\ call = Idle
  /\ pc = "idle"
  /\ records = <<>>
  /\ keys = <<>>
  /\ log = <<>>
  /\ result = Pending
  /\ before = [id \in Ids |-> Undefined]
  /\ query = NoQuery
  /\ compiled = NotCompiled
  /\ lookup = NoLookup
  /\ predicate = Unresolved

NextOverrides ==
  \/ \E props \in NewProps : Create(props, NoReply)
  \/ \E q \in Queries, with \in Withs, ops \in CallTables : FindAll(q, with, ops, NoReply)
  \/ \E props \in SomeProps, q \in Queries, ops \in CallTables :
       UpdateAll(props, q, ops, NoReply)
  \/ \E q \in Queries, ops \in CallTables : DestroyAll(q, ops, NoReply)
  \/ \E ok \in BOOLEAN : BeginTransaction(ok)
  \/ \E ok \in BOOLEAN : AllocateIds(ok)
  \/ \E ok \in BOOLEAN : SaveCreated(ok)
  \/ \E ok \in BOOLEAN : Commit(ok)
  \/ \E ok \in BOOLEAN : RunQuery(ok)
  \/ \E ok \in BOOLEAN : LoadRelatedAll(ok)
  \/ \E ok \in BOOLEAN : SaveUpdated(ok)
  \/ \E ok \in BOOLEAN : Delete(ok)
  \/ RunAfterHook(NoReply, FALSE)
  \/ Return

SpecOverrides == InitOverrides /\ [][NextOverrides]_vars

\* ------------------------------------------------------------------------
\* The compiler's specification: filterQuery applied to the queries below
\* ------------------------------------------------------------------------
QueryFields == {"age", "status"}

\* The sequences of at most n different elements of S.
Distinct(S, n) == {seq \in Lists(S, n) : \A i, j \in 1..Len(seq) : i # j => seq[i] # seq[j]}

\* Criteria: mappings of up to MaxOps operators in every declaration order,
\* mappings with an operator named as a property the operator tables
\* inherit, and bare values.
Mappings ==
  LET Symbols == {OpEq, OpGt, OpLt, OrOp(OpEq)}
      Operand(op) == CASE op = OpGt -> Num(18) [] op = OpLt -> Num(65) [] OTHER -> Num(5)
  IN {Criteria([i \in 1..Len(ops) |-> Entry(ops[i], Operand(ops[i]))]) :
        ops \in (Distinct(Symbols, MaxOps) \ {<<>>})
                  \cup {<<OpConstructor>>, <<OpGt, OpConstructor>>,
                        <<OpToString, OpGt>>, <<OrOp(OpHasOwnProperty)>>}}
Bares == {Bare(Num(5)), Bare(Str("active"))}
\* Sorting and paging: none; limit 10; limit '10' with offset '3' (strings);
\* orderBy 'age' with skip 0 and offset 5;
\* sort [['age', 'Desc'], 'status'] with skip 2 and limit 10; orderBy
\* [['age']]; orderBy [['age', 'desc'], ['status', 'ASC']] with sort 'status'
\* and limit 10.
Pagings ==
  { [orderBy |-> NoOrder, sort |-> NoOrder, limit |-> Undefined,
     skip |-> Undefined, offset |-> Undefined],
    [orderBy |-> NoOrder, sort |-> NoOrder, limit |-> Num(10),
     skip |-> Undefined, offset |-> Undefined],
    [orderBy |-> NoOrder, sort |-> NoOrder, limit |-> Str("10"),
     skip |-> Undefined, offset |-> Str("3")],
    [orderBy |-> OrderStr("age"), sort |-> NoOrder, limit |-> Undefined,
     skip |-> Num(0), offset |-> Num(5)],
    [orderBy |-> NoOrder,
     sort |-> OrderArr(<<SortDir("age", <<"D", "e", "s", "c">>), SortStr("status")>>),
     limit |-> Num(10), skip |-> Num(2), offset |-> Undefined],
    [orderBy |-> OrderArr(<<[t |-> "array", f |-> "age", hasDir |-> FALSE, d |-> <<>>]>>),
     sort |-> NoOrder, limit |-> Undefined, skip |-> Undefined, offset |-> Undefined],
    [orderBy |-> OrderArr(<<SortDir("age", <<"d", "e", "s", "c">>),
                            SortDir("status", <<"A", "S", "C">>)>>),
     sort |-> OrderStr("status"),
     limit |-> Num(10), skip |-> Undefined, offset |-> Undefined] }

\* where: up to MaxWhere fields, each with a criteria.  Top-level keys: none,
\* or one field given bare or as a mapping.  Besides those: a field given a
\* string of 2 or of 12 characters with per-call predicates under the index
\* keys '0', '1' or '0' to '9'; limit and skip given as numeric literals
\* with an exponent, a point, a leading form feed or blanks outside ASCII
\* around them; and orderBy [['age', d]] for a direction d written with a
\* long s or a sharp s.
CompilerInputs ==
  LET Wheres ==
        UNION {{[i \in 1..Len(fs) |-> Clause(fs[i], cs[i])] :
                  cs \in [1..Len(fs) -> Mappings \cup Bares]} :
                 fs \in Distinct(QueryFields, MaxWhere)}
      Tops ==
        {<<>>} \cup
        {<<Clause(f, c)>> : f \in QueryFields,
                            c \in Bares \cup {Criteria(<<Entry(OpGt, Num(18))>>),
                                              Criteria(<<Entry(OrOp(OpEq), Num(5))>>)}}
      IndexTable(n) ==
        [op \in {<<SubSeq("0123456789", i, i)>> : i \in 1..n} |-> CallPredicate]
      Indexed ==
        {[q |-> Query(<<>>, <<Clause("age", Bare(Str(s)))>>),
          ownOps |-> NoOverrides, callOps |-> IndexTable(n)] :
           s \in {"ab", "abcdefghijkl"}, n \in {2, 10}}
      Literals ==
        {[q |-> [Query(<<>>, <<>>) EXCEPT !.limit = l, !.skip = k],
          ownOps |-> NoOverrides, callOps |-> NoOverrides] :
           l \in {Str("1e3"), Str("10."), Text(<<"U+00A0", "4", "U+00A0">>)},
           k \in {Str("1.0"), Str("\f7"), Text(<<"U+2003", "7", "U+FEFF">>)}}
      Directed ==
        {[q |-> [Query(<<>>, <<>>) EXCEPT !.orderBy = OrderArr(<<SortDir("age", d)>>)],
          ownOps |-> NoOverrides, callOps |-> NoOverrides] :
           d \in {<<"d", "e", "U+017F", "c">>, <<"D", "E", "U+017F", "C">>,
                  <<"d", "e", "U+00DF", "c">>}}
  IN {[q |-> [top |-> top, where |-> where, orderBy |-> pg.orderBy, sort |-> pg.sort,
              limit |-> pg.limit, skip |-> pg.skip, offset |-> pg.offset],
       ownOps |-> NoOverrides, callOps |-> NoOverrides] :
        top \in Tops, where \in Wheres, pg \in Pagings}
       \cup Indexed \cup Literals \cup Directed

InitCompiler ==
  /\ impl \in Impls
  /\ others = NoOthers
  /\ operators = Constructed(NoOverrides).table
  /\ store = [id \in Ids |-> Undefined]
  /\ nextId = 1
  /\ call = Idle
  /\ pc = "idle"
  /\ records = <<>>
  /\ keys = <<>>
  /\ log = <<>>
  /\ result = Pending
  /\ before = [id \in Ids |-> Undefined]
  /\ query \in CompilerInputs
  /\ compiled = NotCompiled
  /\ lookup = NoLookup
  /\ predicate = Unresolved

\* One call of filterQuery on a fresh backend query.
Compile ==
  /\ compiled = NotCompiled
  /\ compiled' = filterQuery(operators, <<>>, query.q, query.callOps)
  /\ UNCHANGED <<query, lookup, predicate, adapterVars>>

SpecCompiler == InitCompiler /\ [][Compile]_vars

\* ------------------------------------------------------------------------
\* The operator lookup's specification: getOperator applied to the tables
\* and symbols below
\* ------------------------------------------------------------------------
InitOperators ==
  /\ impl \in Impls
  /\ others = NoOthers
  /\ lookup \in {[operator |-> op, ownOps |-> own, callOps |-> c] :
                   op \in TableSymbols \cup ComparisonSymbols
                           \cup {OpConstructor, OpToString, OpHasOwnProperty},
                   own \in Tables(OwnPredicate)
                           \cup {[op \in {o} |-> NoFn] :
                                   o \in {OpHasOwnProperty, OpToString, OpGt}},
                   c \in Tables(CallPredicate)}
  /\ operators = Constructed(lookup.ownOps).table
  /\ store = [id \in Ids |-> Undefined]
  /\ nextId = 1
  /\ call = Idle
  /\ pc = IF Constructed(lookup.ownOps).err = "" THEN "idle" ELSE "unconstructed"
  /\ records = <<>>
  /\ keys = <<>>
  /\ log = <<>>
  /\ result = Pending
  /\ before = [id \in Ids |-> Undefined]
  /\ query = NoQuery
  /\ compiled = NotCompiled
  /\ predicate = Unresolved

\* One call of getOperator(operator, {operators: callOps}).
Resolve ==
  /\ pc = "idle"
  /\ predicate = Unresolved
  /\ predicate' = getOperator(operators, lookup.operator, lookup.callOps)
  /\ UNCHANGED <<lookup, query, compiled, adapterVars>>

SpecOperators == InitOperators /\ [][Resolve]_vars

\* ------------------------------------------------------------------------
\* The operations with lifecycle hooks that return a value (SpecHooks)
\* ------------------------------------------------------------------------

\* What an overridden before-hook returns in place of the argument.
HookProps == Rec(Undefined, Num(2), Num(2), Undefined, Undefined)
HookQuery == Query(<<Clause("b", Bare(Num(2)))>>, <<>>)
HookRecords == <<set(HookProps, idAttribute, Num(1))>>

Replies(values) == {NoReply, Throws} \cup {Reply(v) : v \in values}

\* The sources whose public operations, hooks included, are their own.
InitHooks ==
  /\ impl \in OwnLifecycle
  /\ others = NoOthers
  /\ operators = Constructed(NoOverrides).table
  /\ store = [id \in Ids |-> Undefined]
  /\ nextId = 1
  /\ call = Idle
  /\ pc = "idle"
  /\ records = <<>>
  /\ keys = <<>>
  /\ log = <<>>
  /\ result = Pending
  /\ before = [id \in Ids |-> Undefined]
  /\ query = NoQuery
  /\ compiled = NotCompiled
  /\ lookup = NoLookup
  /\ predicate = Unresolved

NextHooks ==
  \/ \E props \in NewProps, reply \in Replies({HookProps}) : Create(props, reply)
  \/ \E list \in Lists(NewProps, MaxBatch), reply \in {NoReply, Throws} :
       CreateMany(list, reply)
  \/ \E list \in Lists(NewProps, MaxBatch) : CreateMany(list, Reply(<<HookProps>>))
  \/ \E id \in Ids, with \in Withs, reply \in Replies({Num(1)}) : Find(id, with, reply)
  \/ \E q \in Queries, with \in Withs, reply \in Replies({HookQuery}) :
       FindAll(q, with, NoOverrides, reply)
  \/ \E id \in Ids, props \in SomeProps, reply \in Replies({HookProps}) :
       Update(id, props, reply)
  \/ \E props \in SomeProps, q \in Queries, reply \in Replies({HookProps}) :
       UpdateAll(props, q, NoOverrides, reply)
  \/ \E list \in Lists(ManyProps, MaxBatch), reply \in {NoReply, Throws} :
       UpdateMany(list, reply)
  \/ \E list \in Lists(ManyProps, MaxBatch) : UpdateMany(list, Reply(HookRecords))
  \/ \E id \in Ids, reply \in Replies({Num(1)}) : Destroy(id, reply)
  \/ \E q \in Queries, reply \in Replies({HookQuery}) : DestroyAll(q, NoOverrides, reply)
  \/ \E ok \in BOOLEAN : BeginTransaction(ok)
  \/ \E ok \in BOOLEAN : AllocateIds(ok)
  \/ \E ok \in BOOLEAN : SaveCreated(ok)
  \/ \E ok \in BOOLEAN : Commit(ok)
  \/ \E ok \in BOOLEAN : Get(ok)
  \/ \E ok \in BOOLEAN : GetRelated(ok)
  \/ \E ok \in BOOLEAN : RunQuery(ok)
  \/ \E ok \in BOOLEAN : LoadRelatedAll(ok)
  \/ \E ok \in BOOLEAN : GetMany(ok)
  \/ \E ok \in BOOLEAN : SaveUpdated(ok)
  \/ \E ok \in BOOLEAN : Delete(ok)
  \/ \E reply \in Replies({Resolved(Obj(1), <<>>, 0)}), direct \in BOOLEAN : RunAfterHook(reply, direct)
  \/ Return

SpecHooks == InitHooks /\ [][NextHooks]_vars

\* ------------------------------------------------------------------------
\* The operations while other callers write to the same kind (SpecRace)
\* ------------------------------------------------------------------------
\* The storage calls of an operation are separate asynchronous calls, none
\* of them inside a transaction that covers a read and the write after it,
\* so a storage call of another caller can land at any moment: before the
\* operation's first call, between two of its calls, and after its last.
\* An update of another caller is itself a read and a later write of the
\* record it read, merged with its props.

\* The dataset.delete of another caller's destroy of id.
OtherDestroy(id) ==
  /\ others.calls < MaxOtherCalls
  /\ IsRecord(store[id])
  /\ store' = [store EXCEPT ![id] = Undefined]
  /\ others' = [others EXCEPT !.calls = @ + 1]
  /\ UNCHANGED <<impl, operators, nextId, call, pc, records, keys, log, result, before,
                 compilerVars>>

\* The dataset.get of another caller's update of id with props: it is
\* answered with the record as it is stored now.
OtherGet(id, props) ==
  /\ others.calls < MaxOtherCalls
  /\ IsRecord(store[id])
  /\ others' = [got |-> others.got \cup {[id |-> id, props |-> Handed(props),
                                     record |-> store[id]]},
                calls |-> others.calls + 1]
  /\ UNCHANGED <<impl, operators, store, nextId, call, pc, records, keys, log, result,
                 before, compilerVars>>

\* The dataset.save of another caller's update of id with props: the
\* record its get was answered with, merged with props.
OtherUpdate(id, props) ==
  /\ \E o \in others.got :
       /\ o.id = id
       /\ o.props = Handed(props)
       /\ store' = [store EXCEPT ![id] =
                      IF impl = "bundle" THEN deepMixIn(o.record, o.props)
                      ELSE withoutRelations(deepMixIn(o.record, o.props))]
       /\ others' = [others EXCEPT !.got = @ \ {o}]
  /\ UNCHANGED <<impl, operators, nextId, call, pc, records, keys, log, result, before,
                 compilerVars>>

NextRace ==
  \/ \E props \in NewProps : Create(props, NoReply)
  \/ \E id \in Ids, props \in SomeProps : Update(id, props, NoReply)
  \/ \E list \in Lists(ManyProps, MaxBatch) : UpdateMany(list, NoReply)
  \/ \E q \in Queries : DestroyAll(q, NoOverrides, NoReply)
  \/ \E ok \in BOOLEAN : BeginTransaction(ok)
  \/ \E ok \in BOOLEAN : AllocateIds(ok)
  \/ \E ok \in BOOLEAN : SaveCreated(ok)
  \/ \E ok \in BOOLEAN : Commit(ok)
  \/ \E ok \in BOOLEAN : Get(ok)
  \/ \E ok \in BOOLEAN : RunQuery(ok)
  \/ \E ok \in BOOLEAN : GetMany(ok)
  \/ \E ok \in BOOLEAN : SaveUpdated(ok)
  \/ \E ok \in BOOLEAN : Delete(ok)
  \/ RunAfterHook(NoReply, FALSE)
  \/ Return
  \/ \E id \in Ids : OtherDestroy(id)
  \/ \E id \in Ids, props \in SomeProps : OtherGet(id, props)
  \/ \E id \in Ids, props \in SomeProps : OtherUpdate(id, props)

SpecRace == Init /\ [][NextRace]_vars

\* ------------------------------------------------------------------------
\* Updates with loose props: a batch of updateMany that holds records
\* without an id, an update whose props carry an id of their own (SpecBatch)
\* ------------------------------------------------------------------------
\* Records given to updateMany: those of ManyProps, and one without an id.
NextBatch ==
  \/ \E props \in NewProps : Create(props, NoReply)
  \/ \E list \in Lists(ManyProps \cup {Rec(Undefined, Num(3), Undefined, Undefined, Undefined)},
                         MaxBatch) : UpdateMany(list, NoReply)
  \/ \E id \in Ids, props \in ManyProps : Update(id, props, NoReply)
  \/ \E ok \in BOOLEAN : BeginTransaction(ok)
  \/ \E ok \in BOOLEAN : AllocateIds(ok)
  \/ \E ok \in BOOLEAN : SaveCreated(ok)
  \/ \E ok \in BOOLEAN : Commit(ok)
  \/ \E ok \in BOOLEAN : Get(ok)
  \/ \E ok \in BOOLEAN : GetMany(ok)
  \/ \E ok \in BOOLEAN : SaveUpdated(ok)
  \/ RunAfterHook(NoReply, FALSE)
  \/ Return

SpecBatch == Init /\ [][NextBatch]_vars

\* ------------------------------------------------------------------------
\* The kind each storage access addresses (SpecKinds)
\* ------------------------------------------------------------------------
\* getKind (mapper, opts), kind being opts.kind
getKind(mapper, kind) ==
  IF kind = Undefined
    THEN (IF mapper.kind = Undefined THEN mapper.name ELSE mapper.kind)
    ELSE kind

\* The storage accesses of one operation with the kind of the key or query
\* each is made with.  create and destroy build their keys from mapper.name;
\* find, findAll and the save of an update from getKind(mapper, opts); the
\* reads that update, updateAll, updateMany and destroyAll start with go
\* through find / findAll with opts of their own (the bundle passes opts).
Accesses(op, mapper, kind) ==
  LET own == getKind(mapper, kind)
      read == IF impl = "bundle" THEN own ELSE getKind(mapper, Undefined)
      At(name, k) == [call |-> name, kind |-> k]
  IN CASE op \in CreateOps ->
            <<At("allocateIds", mapper.name), At("save", mapper.name)>>
       [] op = "destroy" -> <<At("delete", mapper.name)>>
       [] op = "destroyAll" ->
            <<At("runQuery", read),
              At("delete", IF impl = "bundle" THEN read ELSE mapper.name)>>
       [] op = "find" -> <<At("get", own)>>
       [] op = "findAll" -> <<At("runQuery", own)>>
       [] op = "updateAll" -> <<At("runQuery", read), At("save", own)>>
       [] OTHER -> <<At("get", read), At("save", own)>>

\* A mapper named "post" with or without a kind of its own, and a call of
\* one operation with or without opts.kind.
InitKinds ==
  /\ impl \in Impls
  /\ others = NoOthers
  /\ operators = Constructed(NoOverrides).table
  /\ store = [id \in Ids |-> Undefined]
  /\ nextId = 1
  /\ call \in {[Idle EXCEPT !.op = op, !.mapper.kind = mk, !.kind = ok] :
                 op \in CreateOps \cup UpdateOps \cup {"find", "findAll", "destroy", "destroyAll"},
                 mk \in {Undefined, Str("post"), Str("article")},
                 ok \in {Undefined, Str("post"), Str("archive")}}
  /\ pc = "idle"
  /\ records = <<>>
  /\ keys = <<>>
  /\ log = <<>>
  /\ result = Pending
  /\ before = [id \in Ids |-> Undefined]
  /\ query = NoQuery
  /\ compiled = NotCompiled
  /\ lookup = NoLookup
  /\ predicate = Unresolved

\* The operation makes its next storage access, each a call of its own
\* (the second from the callback of the first): log holds the accesses made
\* so far with their kinds.
Address ==
  /\ Len(log) < Len(Accesses(call.op, call.mapper, call.kind))
  /\ log' = Append(log, Accesses(call.op, call.mapper, call.kind)[Len(log) + 1])
  /\ UNCHANGED <<impl, others, operators, store, nextId, call, pc, records, keys, result, before,
                 compilerVars>>

SpecKinds == InitKinds /\ [][Address]_vars

\* ------------------------------------------------------------------------
\* Properties of the operations (Spec)
\* ------------------------------------------------------------------------
Issued(name) == \E i \in 1..Len(log) : log[i] = name
IssuedTimes(name) == Cardinality({i \in 1..Len(log) : log[i] = name})

\* C1: update on an id that has no stored record never resolves, issues no
\* save call and leaves the store as it was; it ends rejected, with the
\* Not Found error unless the find itself failed in the storage.
C1_UpdateMissingNotFound ==
  (call.op = "update" /\ ~IsRecord(before[call.id])) =>
    /\ result.state # "resolved"
    /\ ~Issued("save")
    /\ store = before
    /\ (pc = "done" =>
          /\ result.state = "rejected"
          /\ result.error \in {NotFound, StorageError})

\* An update of a missing id has ended with Not Found.
C1_Witness ==
  /\ pc = "done"
  /\ call.op = "update"
  /\ ~IsRecord(before[call.id])
  /\ result.error = NotFound

\* delete call and resolves with deleted = 0.
C3_DestroyAllNothing ==
  (/\ pc = "done"
   /\ call.op = "destroyAll"
   /\ RunQueryKeys(before, filterQuery(NoOverrides, <<>>, call.query, NoOverrides).q) = <<>>) =>
    /\ ~Issued("delete")
    /\ result.state = "resolved" => result.count = 0

\* C4: a create that resolves returns the record with the id attribute set
\* to the id allocated for it, the entity is stored under that id's key,
\* and created = 1.
C4_CreateStampsAllocatedId ==
  (pc = "done" /\ call.op = "create" /\ result.state = "resolved") =>
    /\ Len(keys) = 1
    /\ ~IsRecord(before[keys[1]])
    /\ result.record[idAttribute] = Num(keys[1])
    /\ store[keys[1]] = result.record
    /\ result.count = 1

\* A create has resolved.
C4_Witness ==
  /\ pc = "done"
  /\ call.op = "create"
  /\ result.state = "resolved"
  /\ Len(keys) = 1
  /\ IsRecord(store[keys[1]])

\* C5: createMany with an empty list persists nothing, and resolves with
\* an empty sequence and created = 0 unless one of the storage calls it
\* makes reports an error (the only way it ends rejected).
C5_CreateManyEmpty ==
  (call.op = "createMany" /\ call.list = <<>>) =>
    /\ store = before
    /\ pc = "done" =>
         /\ result.state = "resolved" => (result.data = <<>> /\ result.count = 0)
         /\ result.state = "rejected" => result.error = StorageError

\* A createMany of the empty list has resolved.
C5_Witness ==
  /\ pc = "done"
  /\ call.op = "createMany"
  /\ call.list = <<>>
  /\ result.state = "resolved"
  /\ Issued("commit")

\* C6: create and createMany are all-or-nothing: when the call fails none of
\* its records is in the store, when it succeeds all of them are.
C6_CreateAllOrNothing ==
  (pc = "done" /\ call.op \in CreateOps) =>
    /\ result.state = "rejected" => store = before
    /\ result.state = "resolved" =>
         \A i \in 1..Len(keys) : store[keys[i]] = records[i]

\* C10: findAll with the belongsTo relation in opts.with is rejected (bulk
\* belongsTo is unsupported), and find of a stored record with the same
\* relation resolves with the related record under the local field.
C10_BelongsToSingleOnly ==
  pc = "done" =>
    /\ (call.op = "findAll" /\ localField \in call.with) =>
         /\ result.state = "rejected"
         /\ result.error \in {BelongsToUnsupported, StorageError}
    /\ (call.op = "find" /\ localField \in call.with /\ IsRecord(before[call.id])) =>
         /\ result.state = "rejected" => result.error = StorageError
         /\ result.state = "resolved" =>
              /\ IsRecord(result.record)
              /\ result.record[localField] = Related(before[call.id][foreignKey])

\* C17: a find of an id with no stored record resolves with undefined as
\* data and found = 0, and a find of a stored id resolves with the stored
\* record's data and found = 1; a find is rejected only when a storage call
\* fails.
C17_FindAbsentResolves ==
  (pc = "done" /\ call.op = "find") =>
    /\ result.state = "rejected" => result.error = StorageError
    /\ (result.state = "resolved" /\ ~IsRecord(before[call.id])) =>
         (result.record = Undefined /\ result.count = 0)
    /\ (result.state = "resolved" /\ IsRecord(before[call.id])) =>
         /\ result.count = 1
         /\ \A f \in Fields \ relationFields : result.record[f] = before[call.id][f]

\* C18: an update that resolves has merged props onto the stored record:
\* the record persisted under the id and the record returned hold props'
\* value for every field props gives and the stored record's old value for
\* every field props does not give; updated = 1; no other record changes.
C18_UpdateMerges ==
  (pc = "done" /\ call.op = "update" /\ result.state = "resolved") =>
    /\ IsRecord(before[call.id])
    /\ result.count = 1
    /\ \A k \in Ids \ {call.id} : store[k] = before[k]
    /\ \A f \in Fields :
         IF call.props[f] # Undefined
           THEN f \notin relationFields =>
                  (store[call.id][f] = call.props[f] /\ result.record[f] = call.props[f])
           ELSE /\ store[call.id][f] = before[call.id][f]
                /\ result.record[f] = before[call.id][f]

\* An update of a record that had a and not b = 2, with props that give b = 2
\* (with userId and the relation field user) and no a, has resolved: the
\* record keeps a and has b = 2.
C18_Witness ==
  /\ pc = "done"
  /\ call.op = "update"
  /\ result.state = "resolved"
  /\ call.props["a"] = Undefined
  /\ before[call.id]["a"] # Undefined
  /\ before[call.id]["b"] # Num(2)
  /\ store[call.id]["a"] = before[call.id]["a"]
  /\ store[call.id]["b"] = Num(2)

\* ------------------------------------------------------------------------
\* Properties of the compiler (SpecCompiler)
\* ------------------------------------------------------------------------
IsOrOp(op) == Len(op) > 0 /\ op[1] = "|"
HasOr(crit) == crit.obj /\ \E j \in 1..Len(crit.ops) : IsOrOp(crit.ops[j].op)
IsFilter(c) == c.call = "filter"

\* The number of operators in the where clauses before the i-th.
RECURSIVE OpsBefore(_, _)
OpsBefore(where, i) ==
  IF i <= 1 THEN 0 ELSE OpsBefore(where, i - 1) + Len(where[i - 1].crit.ops)

\* The clauses of a query: orderBy, or sort when orderBy is not given; a
\* single field name is one clause.
ClausesOf(q) ==
  LET o == IF TruthyOrder(q.orderBy) THEN q.orderBy ELSE q.sort IN
  CASE o.t = "string" -> <<SortStr(o.s)>>
    [] o.t = "array" -> o.a
    [] OTHER -> <<>>

\* Every ordering clause given as an array carries its direction.
Directed(q) ==
  \A k \in 1..Len(ClausesOf(q)) :
    ClausesOf(q)[k].t = "array" => ClausesOf(q)[k].hasDir

\* A where clause of mappings whose operators are all built in.
BuiltInWhere(q) ==
  /\ q.top = <<>>
  /\ \A i \in 1..Len(q.where) :
       /\ q.where[i].crit.obj
       /\ \A j \in 1..Len(q.where[i].crit.ops) :
            q.where[i].crit.ops[j].op \in BuiltIn

\* C7: a where clause compiles to one filter call per operator: the calls
\* of a field in the declaration order of its operators, the fields in
\* their order, every call chained onto the query the previous one returned
\* (for a query whose ordering clauses compile, so that a query is returned).
C7_OneFilterPerOperator ==
  (compiled # NotCompiled /\ BuiltInWhere(query.q) /\ Directed(query.q)) =>
    LET where == query.q.where IN
    /\ compiled.err = ""
    /\ Len(SelectSeq(compiled.q, IsFilter)) = OpsBefore(where, Len(where) + 1)
    /\ \A i \in 1..Len(where) : \A j \in 1..Len(where[i].crit.ops) :
         LET e == where[i].crit.ops[j] IN
         /\ OpsBefore(where, i) + j <= Len(compiled.q)
         /\ compiled.q[OpsBefore(where, i) + j] =
              FilterCall(where[i].field, OPERATORS(e.op), e.val)

\* {where: {age: {'>': 18, '<': 65}}} has compiled to age > 18, then age < 65.
C7_Witness ==
  /\ query.q.top = <<>>
  /\ query.q.where =
       <<Clause("age", Criteria(<<Entry(OpGt, Num(18)), Entry(OpLt, Num(65))>>))>>
  /\ compiled.err = ""
  /\ SelectSeq(compiled.q, IsFilter) =
       <<FilterCall("age", ">", Num(18)), FilterCall("age", "<", Num(65))>>

ContainsOr(q) ==
  \/ \E k \in 1..Len(q.top) : HasOr(q.top[k].crit)
  \/ \E i \in 1..Len(q.where) : HasOr(q.where[i].crit)

\* C8: every query that contains an OR-prefixed operator makes the compiler
\* throw the unsupported-operator error and return no backend query,
\* whatever its other clauses and wherever the operator sits.
C8_OrAlwaysThrows ==
  (compiled # NotCompiled /\ ContainsOr(query.q)) =>
    /\ compiled.err = Unsupported
    /\ compiled.q = <<>>

\* The query that gives the top-level keys of q under where, each with an
\* explicit '=='.
Explicit(q) ==
  [q EXCEPT !.top = <<>>,
            !.where = q.where \o
                        [k \in 1..Len(q.top) |->
                           Clause(q.top[k].field,
                                  Criteria(<<Entry(OpEq, q.top[k].crit.val)>>))]]

\* Top-level keys with bare values, none of a field that where names too.
BareShorthand(q) ==
  /\ Len(q.top) > 0
  /\ \A k \in 1..Len(q.top) :
       /\ ~q.top[k].crit.obj
       /\ \A i \in 1..Len(q.where) : q.where[i].field # q.top[k].field

\* C9: a query with a filter given as a top-level key with a bare value
\* compiles to the same calls (or the same error) as the query with that
\* filter under where with an explicit '=='.
C9_ShorthandAsExplicit ==
  (compiled # NotCompiled /\ BareShorthand(query.q)) =>
    compiled = filterQuery(operators, <<>>, Explicit(query.q), query.callOps)

\* {status: 'active', limit: 10} has compiled to status = 'active', limit 10.
C9_Witness ==
  /\ query.q.top = <<Clause("status", Bare(Str("active")))>>
  /\ query.q.where = <<>>
  /\ compiled.err = ""
  /\ compiled.q = <<FilterCall("status", "=", Str("active")), LimitCall(Num(10))>>

\* The query that gives every bare criteria of where as {'==': value}.
Sugared(q) ==
  [q EXCEPT !.where = [i \in 1..Len(q.where) |->
                         Clause(q.where[i].field, Shorthand(q.where[i].crit))]]

\* where holds a bare (non-mapping) criteria and there is no top-level key.
BareWhere(q) ==
  /\ q.top = <<>>
  /\ \E i \in 1..Len(q.where) : ~q.where[i].crit.obj

\* C11: a query whose where gives a field a bare value compiles to the same
\* calls as the query that gives that field {'==': value}: one equality
\* filter on the field with the value.
C11_BareCriteriaAsEquality ==
  (compiled # NotCompiled /\ BareWhere(query.q)) =>
    compiled = filterQuery(operators, <<>>, Sugared(query.q), query.callOps)

\* ------------------------------------------------------------------------
\* Properties of the operator lookup (SpecOperators)
\* ------------------------------------------------------------------------
\* The entry a table holds for the symbol looked up, NoFn when it has none.
EntryOf(table) ==
  IF lookup.operator \in DOMAIN table THEN table[lookup.operator] ELSE NoFn

\* C12: getOperator returns the call-level entry of the symbol whenever the
\* call's table defines one; otherwise the entry of the table the adapter
\* was constructed with when that defines one; otherwise the built-in
\* predicate; a symbol with an entry in none of the three resolves to
\* undefined.
C12_ResolutionOrder ==
  predicate # Unresolved =>
    LET c == EntryOf(lookup.callOps)
        o == EntryOf(lookup.ownOps)
        d == IF lookup.operator \in BuiltIn THEN OPERATORS(lookup.operator) ELSE NoFn
    IN /\ c # NoFn => predicate = c
       /\ (c = NoFn /\ o # NoFn) => predicate = o
       /\ (c = NoFn /\ o = NoFn) => predicate = d
       /\ (c = NoFn /\ o = NoFn /\ lookup.operator \notin BuiltIn) => predicate = NoFn

\* ------------------------------------------------------------------------
\* Properties of the per-call operator tables (SpecOverrides)
\* ------------------------------------------------------------------------
\* C13: the query of a findAll, destroyAll or updateAll call is compiled
\* with the call's opts.operators: a predicate given there for a symbol is
\* the one applied, before the adapter's own and the built-in one.
C13_CallOperatorsApplied ==
  (call.op \in QueryOps /\ compiled # NotCompiled) =>
    compiled = filterQuery(operators, <<>>, call.query, call.operators)

\* C14: on an adapter constructed without operators and called without
\* opts.operators, each of ==, ===, !=, !==, >, >=, <, <= resolves to a
\* predicate, and == and === to the same one.
C14_EightBuiltIns ==
  (/\ predicate # Unresolved
   /\ lookup.ownOps = NoOverrides
   /\ lookup.callOps = NoOverrides
   /\ lookup.operator \in ComparisonSymbols) =>
    /\ predicate # NoFn
    /\ lookup.operator \in {OpEq, OpEqq} =>
         predicate = getOperator(operators, OpEq, NoOverrides)

\* ------------------------------------------------------------------------
\* Properties of the compiler's sorting and paging (SpecCompiler)
\* ------------------------------------------------------------------------
IsOrder(c) == c.call = "order"
IsOffset(c) == c.call = "offset"
IsLimit(c) == c.call = "limit"
\* The place of a backend call in filter < order < offset < limit.
Rank(c) ==
  CASE IsFilter(c) -> 1 [] IsOrder(c) -> 2 [] IsOffset(c) -> 3 [] IsLimit(c) -> 4
    [] OTHER -> 0

\* C15: the backend calls of a compiled query are ordered: filter calls,
\* then order calls, then the offset call, then the limit call; the order
\* calls name the fields of the clauses in clause order; at most one offset
\* and one limit call are made.
C15_FilterOrderOffsetLimit ==
  (compiled # NotCompiled /\ compiled.err = "") =>
    LET q == compiled.q
        orders == SelectSeq(q, IsOrder)
        clauses == ClausesOf(query.q)
    IN /\ \A i, j \in 1..Len(q) : i < j => Rank(q[i]) <= Rank(q[j])
       /\ Len(SelectSeq(q, IsOffset)) <= 1
       /\ Len(SelectSeq(q, IsLimit)) <= 1
       /\ Len(orders) = Len(clauses)
       /\ \A k \in 1..Len(orders) : orders[k].field = clauses[k].f

\* A query with filters, two sort clauses, skip and limit has compiled to
\* filter calls, the two order calls in clause order, offset and limit.
C15_Witness ==
  /\ compiled # NotCompiled
  /\ compiled.err = ""
  /\ Len(SelectSeq(compiled.q, IsFilter)) >= 2
  /\ SelectSeq(compiled.q, IsOrder) = <<OrderCall("age", TRUE), OrderCall("status", FALSE)>>
  /\ Len(compiled.q) = Len(SelectSeq(compiled.q, IsFilter)) + 4
  /\ compiled.q[Len(compiled.q) - 1] = OffsetCall(Num(2))
  /\ compiled.q[Len(compiled.q)] = LimitCall(Num(10))

\* The direction of a clause: the one given, 'asc' when none is.
DirectionOf(clause) == IF clause.hasDir THEN clause.d ELSE <<"a", "s", "c">>

\* C16: a single field name given as orderBy is one ascending clause; a
\* clause without a direction is ascending; a clause is descending exactly
\* when its direction is 'desc' in any letter case.
C16_OrderByNormalised ==
  (compiled # NotCompiled /\ query.q.top = <<>> /\ query.q.where = <<>>) =>
    LET clauses == ClausesOf(query.q) IN
    /\ compiled.err = ""
    /\ SelectSeq(compiled.q, IsOrder) =
         [k \in 1..Len(clauses) |->
            OrderCall(clauses[k].f,
                      toUpperCase(DirectionOf(clauses[k])) = <<"D", "E", "S", "C">>)]

\* ------------------------------------------------------------------------
\* Properties of the lifecycle hooks (SpecHooks)
\* ------------------------------------------------------------------------

PublicOperations ==
  {"create", "createMany", "destroy", "destroyAll", "find", "findAll",
   "update", "updateAll", "updateMany"}
HookNames ==
  {BeforeHook(op) : op \in PublicOperations} \cup {AfterHook(op) : op \in PublicOperations}
IsHook(name) == name \in HookNames

\* C19: a call of a public operation that resolves has run exactly one
\* before-hook and one after-hook, its own: before<Op> first, then the
\* storage work, then after<Op> last, and no other lifecycle hook between.
C19_OneBeforeOneAfter ==
  (impl \in OwnLifecycle /\ pc = "done" /\ result.state = "resolved") =>
    /\ SelectSeq(log, IsHook) = <<BeforeHook(call.op), AfterHook(call.op)>>
    /\ log[1] = BeforeHook(call.op)
    /\ log[Len(log)] = AfterHook(call.op)

\* The primary argument as the operation uses it after its before-hook.
PrimaryArgument ==
  CASE call.op \in {"create", "update"} -> call.props
    [] call.op \in {"createMany", "updateMany"} -> call.list
    [] call.op \in {"findAll", "destroyAll", "updateAll"} -> call.query

\* C20: when the before-hook returns a value other than undefined, that
\* value is the primary argument (props of create and update, the query of
\* findAll, destroyAll and updateAll, the records of createMany and
\* updateMany) for the rest of the call, the compiled query included; when
\* it returns undefined the caller's argument is used.
C20_BeforeHookReplacesArgument ==
  (impl \in OwnLifecycle /\ pc # "idle" /\ call.op \notin {"find", "destroy"}) =>
    /\ PrimaryArgument = Reassigned(call.given, call.hooked)
    /\ (compiled # NotCompiled) =>
         compiled = filterQuery(operators, <<>>, Reassigned(call.given, call.hooked),
                                PassedOperators)

\* C21: the call resolves with what the after-hook returns when that is not
\* undefined, returned as it is or through a pending result, and with the
\* computed response when it is undefined.
C21_AfterHookReplacesResponse ==
  [][(pc = "after" /\ pc' = "done" /\ ~call'.after.throws) =>
       result' = Reassigned(result, call'.after)]_vars

\* C22: a hook that fails aborts the operation and the caller gets the
\* hook's error: after a failed before-hook no storage call has been issued
\* and the store is as it was; after a failed after-hook the call is
\* rejected with the hook's error.
C22_FailedHookAborts ==
  (impl \in OwnLifecycle /\ pc = "done") =>
    /\ call.hooked.throws =>
         /\ result = Rejected(HookError)
         /\ log = <<BeforeHook(call.op)>>
         /\ store = before
    /\ call.after.throws => result = Rejected(HookError)

\* beforeDestroy has failed on a destroy of a stored record.
C22_Witness ==
  /\ pc = "done"
  /\ call.op = "destroy"
  /\ call.hooked.throws
  /\ IsRecord(store[call.id])

\* ------------------------------------------------------------------------
\* Properties of the operations among other callers (SpecRace)
\* ------------------------------------------------------------------------

\* C23: destroyAll reports as deleted the number of records its query
\* matched, also when another call has removed one of them between the
\* query and the delete.
C23_DeletedIsMatchCount ==
  (pc \in {"after", "done"} /\ call.op = "destroyAll" /\ result.state = "resolved"
     /\ Issued("delete")) =>
    result.count = Len(records)

\* ------------------------------------------------------------------------
\* Properties of updateAll and updateMany (Spec)
\* ------------------------------------------------------------------------

\* updateMany calls were made and whatever their props carried.
C28_RelationsStripped ==
  \A id \in Ids : \A f \in relationFields :
    IsRecord(store[id]) => store[id][f] = Undefined

\* A record created from props that carry the relation field user has been
\* updated with props that carry it too: the update is stored (b = 2, with
\* the a and userId of the create), and the entity holds no field user.
C28_Witness ==
  /\ pc = "done"
  /\ call.op = "update"
  /\ result.state = "resolved"
  /\ call.given[localField] # Undefined
  /\ before[call.id]["a"] = Num(2)
  /\ before[call.id]["b"] = Num(1)
  /\ store[call.id]["b"] = Num(2)
  /\ store[call.id][localField] = Undefined

\* ------------------------------------------------------------------------
\* Properties of the storage failures (Spec)
\* ------------------------------------------------------------------------

StorageCalls ==
  {"runInTransaction", "allocateIds", "save", "commit", "get", "runQuery", "delete"}
IsStorageCall(name) == name \in StorageCalls

\* A step in which a storage call reported an error: a call issued in that
\* step, or one of the gets that were started together.
StorageCallFails ==
  \/ /\ Len(SelectSeq(log', IsStorageCall)) > Len(SelectSeq(log, IsStorageCall))
     /\ \/ BeginTransaction(FALSE) \/ AllocateIds(FALSE) \/ SaveCreated(FALSE)
        \/ Commit(FALSE) \/ Get(FALSE) \/ GetRelated(FALSE) \/ RunQuery(FALSE)
        \/ SaveUpdated(FALSE) \/ Delete(FALSE)
  \/ /\ call'.gets # call.gets
     /\ LoadRelatedAll(FALSE) \/ GetMany(FALSE)

\* The gets an operation has reason to issue: one per record it looks up.
GetsDue ==
  CASE call.op \in {"find", "update"} -> 1 + Cardinality(call.with)
    [] call.op = "updateMany" -> Len(call.list)
    [] call.op = "findAll" -> Len(records)
    [] OTHER -> 0

\* C24: when a storage call reports an error the operation rejects with
\* that error and, once rejected, issues no further storage call (the gets
\* started together with a failed one are only answered), and no storage
\* call of an operation is repeated: one transaction, allocateIds, save,
\* commit, runQuery and delete at most, one get per record looked up.
C24_StorageErrorsSurfaceOnce ==
  /\ [][StorageCallFails =>
         (result'.state = "rejected" /\ result'.error = StorageError)]_vars
  /\ [][result.state = "rejected" =>
         /\ Len(SelectSeq(log', IsStorageCall)) <= Len(SelectSeq(log, IsStorageCall))
         /\ pc' \in {pc, "done", "idle"}
         /\ store' = store]_vars
  /\ [](/\ \A name \in StorageCalls \ {"get"} : IssuedTimes(name) <= 1
        /\ IssuedTimes("get") <= GetsDue)

\* The save of an update has failed and the call is rejected with its error.
C24_Witness ==
  /\ pc = "done"
  /\ call.op = "update"
  /\ log[Len(log)] = "save"
  /\ result.state = "rejected"
  /\ result.error = StorageError

\* The records of the batch that are saved under id.
SavedAs(id) ==
  {i \in 1..Len(records) :
     IsRecord(records[i]) /\ HasId(records[i]) /\ records[i][idAttribute] = Num(id)}

\* C27: what the save of an updateMany writes for a record is the supplied
\* props merged onto the state the store holds for that id when the save
\* happens, also when another update of the id has completed since the
\* re-fetch: no field that update wrote is lost.
C27_MergeOntoCurrentState ==
  [][(call.op = "updateMany" /\ SaveUpdated(TRUE)) =>
       \A id \in Ids : \A i \in SavedAs(id) :
         (Cardinality(SavedAs(id)) = 1 /\ IsRecord(store[id])) =>
           withoutRelations(store'[id]) =
             withoutRelations(deepMixIn(store[id], PropsOf(i)))]_vars

\* ------------------------------------------------------------------------
\* Properties of updateMany on loose batches (SpecBatch)
\* ------------------------------------------------------------------------

\* The positions of the supplied records that have an id of a stored record.
Existing == {i \in 1..Len(call.list) :
               HasId(call.list[i]) /\ IsRecord(Fetched(before, call.list[i]))}
\* The place of supplied record i among those.
PlaceOf(i) == Cardinality({k \in Existing : k <= i})

\* C26: updateMany skips a supplied record without an id without failing
\* and saves nothing for it; every supplied record whose id is stored is
\* merged with its own props onto the record re-fetched for that id,
\* wherever the records without an id sit in the batch; updated counts the
\* records that existed.
C26_UpdateManyPairsById ==
  (pc = "done" /\ call.op = "updateMany" /\ result.state = "resolved") =>
    /\ result.count = Cardinality(Existing)
    /\ Len(result.data) = Cardinality(Existing)
    /\ \A i \in Existing :
         result.data[PlaceOf(i)] = deepMixIn(Fetched(before, call.list[i]), call.list[i])
    /\ \A id \in Ids :
         (\A i \in Existing : call.list[i][idAttribute] # Num(id)) => store[id] = before[id]

\* C30: the data of every stored entity holds, under the mapper's
\* idAttribute, the id of the key it is stored under, also after an update
\* whose props carry another value for the id attribute.
C30_DataIdIsKeyId ==
  \A id \in Ids : IsRecord(store[id]) => store[id][idAttribute] = Num(id)

\* ------------------------------------------------------------------------
\* Properties of the kinds (SpecKinds)
\* ------------------------------------------------------------------------

\* C29: every storage access of an operation for a mapper addresses the
\* kind getKind gives (opts.kind if given, else mapper.kind, else
\* mapper.name), so that what create stores is what find, update and
\* destroy address.
C29_OneKindPerMapper ==
  \A i \in 1..Len(log) : log[i].kind = getKind(call.mapper, call.kind)

====
